---------------------------- MODULE Spec2Model ----------------------------
(***************************************************************************)
(* Speculative command execution and rollback engine of the parakeet       *)
(* voice assistant: the generation registry (src/src/generationTracker.ts),*)
(* the model invocation (analyse / abort, src/unnamed/part_015) and the    *)
(* transcription event handler (src/main.ts).                              *)
(*                                                                         *)
(* Text is modelled as a sequence of one-character strings, so that        *)
(* length, lower-casing and substring search are computed, not assumed.    *)
(***************************************************************************)
EXTENDS Integers, Sequences, FiniteSets, TLC

(***************************************************************************)
(* Bounds of the model.                                                    *)
(***************************************************************************)
\* longest padding appended to a text in the continuation-detector inputs
MaxPad == 11
\* number of events (transcription events, timer callbacks, HTTP requests)
\* handled in one behaviour; each runs as its own asynchronous handler
MaxEvents == 3
\* the same number in the specification of partial promotion (SpecPromotion)
MaxPartialEvents == 4
\* number of handlers that are suspended at the same time
MaxHandlers == 2
\* the same number in the specification of the cancellation race
MaxRaceHandlers == 3
\* number of light entities at the backend
NumLights == 2
\* tool calls the model calls of one behaviour issue
MaxToolCalls == 1
\* overlapping captureEntityState calls for one entity in one tool call
MaxOverlap == 2
\* tool calls of one behaviour in the specification of the ledger (SpecLedger)
MaxLedgerToolCalls == 2
\* largest value of an attribute of a snapshot that is restored (SpecRestore)
MaxAttribute == 1

(***************************************************************************)
(* Program constants.                                                      *)
(***************************************************************************)
\* generationTracker.ts:275  newText.length > text.length + 10
ContinuationSlack == 10

\* config.ts:27  WAKE_WORD = "polly"
WAKE_WORD == <<"p", "o", "l", "l", "y">>

(***************************************************************************)
(* String primitives (JavaScript String methods used by the code).         *)
(***************************************************************************)
UpperLetters == <<"A","B","C","D","E","F","G","H","I","J","K","L","M",
                  "N","O","P","Q","R","S","T","U","V","W","X","Y","Z">>
LowerLetters == <<"a","b","c","d","e","f","g","h","i","j","k","l","m",
                  "n","o","p","q","r","s","t","u","v","w","x","y","z">>

\* one character of String.prototype.toLowerCase
LowerChar(c) ==
    IF \E i \in 1..Len(UpperLetters) : UpperLetters[i] = c
    THEN LowerLetters[CHOOSE i \in 1..Len(UpperLetters) : UpperLetters[i] = c]
    ELSE c

\* String.prototype.toLowerCase
toLowerCase(s) == [i \in 1..Len(s) |-> LowerChar(s[i])]

\* String.prototype.indexOf, 0-based, -1 when absent
indexOf(s, sub) ==
    LET hits == {i \in 0..(Len(s) - Len(sub)) : SubSeq(s, i + 1, i + Len(sub)) = sub}
    IN  IF hits = {} THEN -1 ELSE CHOOSE i \in hits : \A j \in hits : i <= j

\* String.prototype.includes
includes(s, sub) == indexOf(s, sub) # -1

\* String.prototype.substring(from, to), 0-based, end exclusive
substring(s, from, to) == SubSeq(s, from + 1, to)

\* String.prototype.trim (the only white space of the model is the blank)
trim(s) ==
    LET solid == {i \in 1..Len(s) : s[i] # " "}
    IN  IF solid = {} THEN <<>>
        ELSE SubSeq(s, CHOOSE i \in solid : \A j \in solid : i <= j,
                       CHOOSE i \in solid : \A j \in solid : i >= j)

\* String.prototype.replace(pattern, "") with a string pattern: first match only
replaceFirst(s, sub) ==
    LET at == indexOf(s, sub)
    IN  IF at = -1 THEN s
        ELSE SubSeq(s, 1, at) \o SubSeq(s, at + Len(sub) + 1, Len(s))

(***************************************************************************)
(* main.ts: stripWakeWord                                                  *)
(***************************************************************************)
stripWakeWord(text) ==
    LET lowerText     == toLowerCase(text)
        lowerWakeWord == toLowerCase(WAKE_WORD)
        wakeWordIndex == indexOf(lowerText, lowerWakeWord)
        beforeWake    == trim(substring(text, 0, wakeWordIndex))
        afterWake     == trim(substring(text, wakeWordIndex + Len(WAKE_WORD), Len(text)))
    IN  IF wakeWordIndex # -1
        THEN IF beforeWake # <<>> /\ afterWake # <<>>
             THEN trim(beforeWake \o <<" ">> \o afterWake)
             ELSE trim(beforeWake \o afterWake)
        ELSE trim(text)

(***************************************************************************)
(* State.                                                                  *)
(***************************************************************************)
VARIABLES
    activeGeneration,       \* generationTracker.ts:24, 0 is null, else an index of gens
    gens,                   \* every ActiveGeneration object created so far
    abortController,        \* ai.ts: the module-level controller (its identity)
    aborted,                \* controllers whose abort() has been called
    backend,                \* Home Assistant: entity id -> [state, attributes]
    handlers,               \* the asynchronous handlers and where each is suspended
    isAwake,                \* main.ts:49
    wakeTimeout,            \* main.ts:50, 0 is null, else the event that armed the timer
    wakeTimers,             \* the wake timers that are armed (setTimeout, not cleared, not fired)
    lastPartialText,        \* main.ts:53, NoText is null
    partialTimeout,         \* main.ts:52, 0 is null, else a timer handle
    timers,                 \* pending partial timers: [handle, id]
    timerCount,             \* handles given out so far
    processedUtteranceIds,  \* main.ts:54, a Set in insertion order
    eventCount,             \* events handled so far
    toolCount,              \* tool calls begun so far
    restoreLog,             \* history: service calls issued by restoreEntityState
    dId, dText, dResult,    \* inputs and result of one detector evaluation
    rSnapshot, rRestore,    \* input and calls of one restoreEntityState evaluation
    USE_PARTIAL_RESULTS     \* config.ts:34, set by the user before the program starts

vars == <<activeGeneration, gens, abortController, aborted, backend, handlers,
          isAwake, wakeTimeout, wakeTimers, lastPartialText, partialTimeout, timers,
          timerCount, processedUtteranceIds, eventCount, toolCount, restoreLog,
          dId, dText, dResult, rSnapshot, rRestore, USE_PARTIAL_RESULTS>>

dvars == <<dId, dText, dResult, rSnapshot, rRestore>>

\* the configuration, which no step changes
cvars == <<USE_PARTIAL_RESULTS>>

mainvars == <<activeGeneration, gens, abortController, aborted, backend, handlers,
              isAwake, wakeTimeout, wakeTimers, lastPartialText, partialTimeout, timers,
              timerCount, processedUtteranceIds, eventCount, toolCount, restoreLog,
              USE_PARTIAL_RESULTS>>

\* the slots that the suspended handlers of a behaviour are kept in
HandlerIds == 1..MaxHandlers
RaceHandlerIds == 1..MaxRaceHandlers

\* utterance ids are tuples, so that a derived id `${id}_partial_...` is a value
\* of the same kind as a raw id and never equal to one
UtteranceIds == {<<"u1">>, <<"u2">>}
NoId == <<>>
\* the value of a text variable that holds null
NoText == <<"null">>

(***************************************************************************)
(* Entities.  An entity id "domain.name" is the pair <<domain, name>>;     *)
(* entity_id.split('.')[0] is its first component.                         *)
(***************************************************************************)
Lights == {<<"light", i>> : i \in 1..NumLights}
\* the climate entity of the one area that setAreaTemperature is called for
Climates == {<<"climate", 1>>}
Entities == Lights \cup Climates

AttrKeys == {"brightness", "rgb_color", "color_temp_kelvin",
             "hvac_mode", "temperature", "volume_level"}
\* an attribute the object does not have (undefined)
Absent == 0 - 1
NoAttributes == [k \in AttrKeys |-> Absent]
\* JavaScript truthiness of an attribute value: undefined and 0 are falsy
Truthy(v) == v # Absent /\ v # 0

EntityOff == [state |-> "off", attributes |-> NoAttributes]
EntityOn  == [state |-> "on", attributes |-> NoAttributes]

(***************************************************************************)
(* generationTracker.ts: the registry.                                     *)
(***************************************************************************)
\* the object activeGeneration refers to
Active == gens[activeGeneration]

\* generationTracker.ts:35-43, with an operations list that is not empty
NewGenerationMutStale(utteranceId, text, controller) ==
    [utteranceId |-> utteranceId, text |-> text, entitySnapshots |-> <<>>,
     toolCallsExecuted |-> <<"stale">>, abortController |-> controller,
     fetched |-> [e \in Entities |-> 0]]

\* startGeneration: the new object, and its index in gens
NewGeneration(utteranceId, text, controller) ==
    [utteranceId |-> utteranceId, text |-> text, entitySnapshots |-> <<>>,
     toolCallsExecuted |-> <<>>, abortController |-> controller,
     fetched |-> [e \in Entities |-> 0]]

(***************************************************************************)
(* generationTracker.ts: detectUtteranceContinuation                       *)
(***************************************************************************)
\* generationTracker.ts:275, with >= in place of >
IsLongerMutSlack(newText, oldText) == Len(newText) >= Len(oldText) + ContinuationSlack

isLonger(newText, oldText) == Len(newText) > Len(oldText) + ContinuationSlack

isDifferent(newText, oldText) == ~includes(toLowerCase(newText), toLowerCase(oldText))

\* generationTracker.ts:273, with the comparison of ids left out
SameUtteranceMutAny(utteranceId) == TRUE

SameUtterance(utteranceId) == Active.utteranceId = utteranceId

\* generationTracker.ts:269-291, with no text ever taken for a continuation
DetectMutNever(utteranceId, newText) == FALSE

\* generationTracker.ts:269-291
detectUtteranceContinuation(utteranceId, newText) ==
    IF activeGeneration = 0 THEN FALSE
    ELSE IF SameUtterance(utteranceId)
         THEN isLonger(newText, Active.text) \/ isDifferent(newText, Active.text)
         ELSE FALSE

(***************************************************************************)
(* generationTracker.ts: restoreEntityState.  RestoreCalls is the sequence *)
(* of callHomeAssistantService calls it issues for a snapshot, in order.   *)
(***************************************************************************)
ServiceCall(domain, service, entity_id, data) ==
    [domain |-> domain, service |-> service, entity_id |-> entity_id, data |-> data]

\* the attributes of `attributes` named in keys that are truthy, others absent
Restorable(attributes, keys) ==
    [k \in AttrKeys |-> IF k \in keys /\ Truthy(attributes[k]) THEN attributes[k] ELSE Absent]

LightColorKeys(attributes) ==
    IF Truthy(attributes["rgb_color"]) THEN {"rgb_color"}
    ELSE IF Truthy(attributes["color_temp_kelvin"]) THEN {"color_temp_kelvin"}
    ELSE {}

RestoreCalls(snapshot) ==
    LET entity_id  == snapshot.entity_id
        state      == snapshot.state
        attributes == snapshot.attributes
        domain     == entity_id[1]
    IN  CASE domain = "light" ->
               IF state = "off"
               THEN <<ServiceCall("light", "turn_off", entity_id, NoAttributes)>>
               ELSE <<ServiceCall("light", "turn_on", entity_id,
                         Restorable(attributes, {"brightness"} \cup LightColorKeys(attributes)))>>
          [] domain = "climate" ->
               (IF Truthy(attributes["hvac_mode"])
                THEN <<ServiceCall("climate", "set_hvac_mode", entity_id,
                          Restorable(attributes, {"hvac_mode"}))>>
                ELSE <<>>)
               \o
               (IF Truthy(attributes["temperature"])
                THEN <<ServiceCall("climate", "set_temperature", entity_id,
                          Restorable(attributes, {"temperature"}))>>
                ELSE <<>>)
          [] domain = "media_player" ->
               IF state = "off"
               THEN <<ServiceCall("media_player", "turn_off", entity_id, NoAttributes)>>
               ELSE <<ServiceCall("media_player", "turn_on", entity_id, NoAttributes)>>
                    \o
                    (IF Truthy(attributes["volume_level"])
                     THEN <<ServiceCall("media_player", "volume_set", entity_id,
                               Restorable(attributes, {"volume_level"}))>>
                     ELSE <<>>)
          [] OTHER -> <<>>

\* the snapshot and the calls of a behaviour that evaluates no restoration
NoSnapshot == [entity_id |-> <<"light", 1>>, state |-> "off", attributes |-> NoAttributes]

NotRestored == [returned |-> FALSE, calls |-> <<>>]

(***************************************************************************)
(* The backend (Home Assistant), as far as the core observes it.           *)
(***************************************************************************)
\* the entity's state after a successful service call
ApplyService(entity, call) ==
    LET merged == [k \in AttrKeys |->
                     IF call.data[k] # Absent THEN call.data[k] ELSE entity.attributes[k]]
    IN  CASE call.service = "turn_off" -> [entity EXCEPT !.state = "off"]
          [] call.service = "turn_on"  -> [state |-> "on", attributes |-> merged]
          [] OTHER -> [entity EXCEPT !.attributes = merged]

RECURSIVE ApplyServices(_, _)
ApplyServices(entity, calls) ==
    IF calls = <<>> THEN entity
    ELSE ApplyServices(ApplyService(entity, Head(calls)), Tail(calls))

(***************************************************************************)
(* Asynchronous handlers.  Every event is handled by its own invocation of *)
(* an async function; an invocation runs without interruption up to its    *)
(* next await and is then suspended at a pc.  Awaits between which the     *)
(* invocation reads and writes no shared state are one suspension.         *)
(***************************************************************************)
NoPending == [e \in Entities |-> 0]

IdleHandler ==
    [pc |-> "idle", run |-> 0, kind |-> "none", id |-> NoId, text |-> <<>>,
     commandText |-> <<>>, utteranceId |-> NoId, path |-> "none",
     \* cancelAndRollback's locals and result
     generation |-> 0, idx |-> 0, rollbackSuccesses |-> 0, rollbackFailures |-> 0,
     rollbackSuccess |-> "none",
     \* analyse: the generation it started, the signal streamText runs under
     gen |-> 0, signal |-> 0,
     \* the tool invocation of the model call
     tool |-> "none", toolState |-> "off",
     pending |-> NoPending, toMutate |-> {},
     \* history: the entities this tool invocation called captureEntityState for
     captured |-> {},
     \* history: the generation that was active when this tool invocation
     \* called captureEntityState
     activeAtCall |-> 0]

\* the invocation has returned or thrown; a tool it started may still be
\* running, and the slot is free again once that tool has ended
Ended(rec, how) ==
    IF rec.tool = "none" THEN IdleHandler
    ELSE [IdleHandler EXCEPT !.pc = how, !.tool = rec.tool, !.toolState = rec.toolState,
                             !.pending = rec.pending, !.toMutate = rec.toMutate,
                             !.captured = rec.captured,
                             !.activeAtCall = rec.activeAtCall]

Returned(rec) == Ended(rec, "done")

\* part_015:712-715, with the error swallowed as an AbortError is
ThrownMutSwallow(rec) == [rec EXCEPT !.pc = "analysed"]

Thrown(rec) == Ended(rec, "threw")

\* a new event can be handled, in a behaviour of at most limit events
HasIdleWithin(limit) ==
    eventCount < limit /\ \E h \in DOMAIN handlers : handlers[h].pc = "idle"

\* a new event can be handled
HasIdle == HasIdleWithin(MaxEvents)

\* the record of the handler of the next event
NewHandler(kind) == [IdleHandler EXCEPT !.kind = kind, !.run = eventCount + 1]

\* the slot its invocation is kept in
FirstIdle == CHOOSE h \in DOMAIN handlers :
                 /\ handlers[h].pc = "idle"
                 /\ \A k \in DOMAIN handlers : handlers[k].pc = "idle" => h <= k

\* Set.prototype.add on a Set kept in insertion order
SetAdd(seq, x) == IF \E i \in 1..Len(seq) : seq[i] = x THEN seq ELSE Append(seq, x)
\* main.ts:81, with the duplicate guard never matching
SetHasMutNever(seq, x) == FALSE

\* Set.prototype.has
SetHas(seq, x) == \E i \in 1..Len(seq) : seq[i] = x

\* main.ts:241  `${id}_partial_${Date.now()}`
PartialId(id) == <<id[1], "partial">>

\* main.ts:174-179: keep the last 50 ids once more than 100 are held
TrimThreshold == 100
KeepLast == 50
TrimProcessed(seq) ==
    IF Len(seq) > TrimThreshold THEN SubSeq(seq, Len(seq) - KeepLast + 1, Len(seq)) ELSE seq

(***************************************************************************)
(* part_015 (ai.ts): abort                                                 *)
(***************************************************************************)
abort ==
    /\ aborted' = aborted \cup {abortController}
    /\ abortController' = abortController + 1

\* main.ts:105, with every text taken to hold the wake word
ContainsWakeWordMutAlways(text) == TRUE

\* main.ts:102-105, 213-214
ContainsWakeWord(text) == includes(toLowerCase(text), toLowerCase(WAKE_WORD))

(***************************************************************************)
(* main.ts: the wake timer                                                 *)
(***************************************************************************)
\* main.ts:108-118, with the clearTimeout of the existing timer left out
ArmWakeTimerMutKeep(run) ==
    /\ wakeTimeout' = run
    /\ wakeTimers' = wakeTimers \cup {run}

\* main.ts:108-118, 217-227: clear the existing timer and set a new one
ArmWakeTimer(run) ==
    /\ wakeTimeout' = run
    /\ wakeTimers' = (wakeTimers \ {wakeTimeout}) \cup {run}

\* main.ts:169-172, 283-286
ClearWakeTimer ==
    /\ wakeTimeout' = 0
    /\ wakeTimers' = wakeTimers \ {wakeTimeout}

(***************************************************************************)
(* main.ts:101-183: the boundary branch from processedUtteranceIds.add on, *)
(* up to its next await.                                                   *)
(***************************************************************************)
BoundaryContinue(h, rec) ==
    /\ processedUtteranceIds' = SetAdd(processedUtteranceIds, rec.id)
    /\ IF ContainsWakeWord(rec.text)
       THEN /\ isAwake' = TRUE
            /\ ArmWakeTimer(rec.run)
            /\ handlers' = [handlers EXCEPT ![h] = [rec EXCEPT !.pc = "wakeDetected"]]
            /\ UNCHANGED <<abortController, aborted>>
       ELSE IF isAwake
       THEN /\ abort
            /\ handlers' = [handlers EXCEPT ![h] =
                   [rec EXCEPT !.pc = "analyse", !.commandText = stripWakeWord(rec.text),
                               !.utteranceId = rec.id, !.path = "awake"]]
            /\ UNCHANGED <<isAwake, wakeTimeout, wakeTimers>>
       ELSE /\ handlers' = [handlers EXCEPT ![h] = Returned(rec)]
            /\ UNCHANGED <<isAwake, wakeTimeout, wakeTimers, abortController, aborted>>

\* main.ts:65-99: a boundary event arrives
BoundaryEventWithin(limit, id, text) ==
    /\ HasIdleWithin(limit)
    /\ LET h   == FirstIdle
           rec == [NewHandler("boundary") EXCEPT !.id = id, !.text = text]
       IN  /\ timers' = {t \in timers : t.handle # partialTimeout}
           /\ partialTimeout' = 0
           /\ IF SetHas(processedUtteranceIds, id)
              THEN /\ handlers' = [handlers EXCEPT ![h] = Returned(rec)]
                   /\ UNCHANGED <<processedUtteranceIds, isAwake, wakeTimeout, wakeTimers,
                                  abortController, aborted>>
              ELSE IF detectUtteranceContinuation(id, text)
              THEN /\ handlers' = [handlers EXCEPT ![h] = [rec EXCEPT !.pc = "rollbackCall"]]
                   /\ UNCHANGED <<processedUtteranceIds, isAwake, wakeTimeout, wakeTimers,
                                  abortController, aborted>>
              ELSE BoundaryContinue(h, rec)
    /\ eventCount' = eventCount + 1
    /\ UNCHANGED <<activeGeneration, gens, backend, lastPartialText, timerCount,
                   restoreLog, toolCount, dvars, cvars>>

BoundaryEvent(id, text) == BoundaryEventWithin(MaxEvents, id, text)

\* main.ts:123-134: after the wake-word log lines
WakeDetected(h) ==
    /\ handlers[h].pc = "wakeDetected"
    /\ LET rec == handlers[h]
           withoutWakeWord == trim(replaceFirst(toLowerCase(rec.text), toLowerCase(WAKE_WORD)))
           commandText == stripWakeWord(rec.text)
       IN  IF withoutWakeWord = <<>>
           THEN /\ lastPartialText' = NoText
                /\ handlers' = [handlers EXCEPT ![h] = Returned(rec)]
                /\ UNCHANGED <<abortController, aborted>>
           ELSE IF commandText # <<>>
           THEN /\ abort
                /\ handlers' = [handlers EXCEPT ![h] =
                       [rec EXCEPT !.pc = "analyse", !.commandText = commandText,
                                   !.utteranceId = rec.id, !.path = "wake"]]
                /\ UNCHANGED lastPartialText
           ELSE /\ handlers' = [handlers EXCEPT ![h] = Returned(rec)]
                /\ UNCHANGED <<lastPartialText, abortController, aborted>>
    /\ UNCHANGED <<activeGeneration, gens, backend, isAwake, wakeTimeout, wakeTimers, partialTimeout,
                   timers, timerCount, processedUtteranceIds, restoreLog, eventCount, toolCount, dvars, cvars>>

(***************************************************************************)
(* part_015 (ai.ts): analyse, and generationTracker.ts: startGeneration    *)
(***************************************************************************)
\* part_015:492-512: startGeneration, up to the await of getAvailableLights
AnalyseStart(h) ==
    /\ handlers[h].pc = "analyse"
    /\ LET rec == handlers[h]
           generationId == Len(gens) + 1
       IN  /\ gens' = Append(gens,
                  NewGeneration(rec.utteranceId, rec.commandText, abortController))
           /\ activeGeneration' = generationId
           /\ handlers' = [handlers EXCEPT ![h] =
                  [rec EXCEPT !.pc = "getLights", !.gen = generationId]]
    /\ UNCHANGED <<abortController, aborted, backend, isAwake, wakeTimeout, wakeTimers,
                   lastPartialText, partialTimeout, timers, timerCount,
                   processedUtteranceIds, restoreLog, eventCount, toolCount, dvars, cvars>>

\* part_015:515-590: streamText is called with the signal of the controller
\* that the module-level variable holds now
StreamStart(h) ==
    /\ handlers[h].pc = "getLights"
    /\ handlers' = [handlers EXCEPT ![h] =
           [@ EXCEPT !.pc = "streaming", !.signal = abortController]]
    /\ UNCHANGED <<activeGeneration, gens, abortController, aborted, backend, isAwake,
                   wakeTimeout, wakeTimers, lastPartialText, partialTimeout, timers, timerCount,
                   processedUtteranceIds, restoreLog, eventCount, toolCount, dvars, cvars>>

(***************************************************************************)
(* part_014 (tools.ts): a state-changing tool the model calls, e.g.        *)
(* setLightState: recordToolExecution, then controlLights, which captures  *)
(* every target with Promise.all and then issues the mutating calls.       *)
(***************************************************************************)
\* generationTracker.ts:112-121
recordToolExecution(toolName) ==
    IF activeGeneration = 0 THEN UNCHANGED gens
    ELSE gens' = [gens EXCEPT ![activeGeneration].toolCallsExecuted = Append(@, toolName)]

\* part_014:386-390, for a behaviour of at most limit tool calls
ToolBeginWithin(limit, h) ==
    /\ handlers[h].pc = "streaming"
    /\ handlers[h].tool = "none"
    /\ toolCount < limit
    /\ toolCount' = toolCount + 1
    /\ recordToolExecution("setLightState")
    /\ handlers' = [handlers EXCEPT ![h] = [@ EXCEPT !.tool = "begun"]]
    /\ UNCHANGED <<activeGeneration, abortController, aborted, backend, isAwake,
                   wakeTimeout, wakeTimers, lastPartialText, partialTimeout, timers, timerCount,
                   processedUtteranceIds, restoreLog, eventCount, dvars, cvars>>

ToolBegin(h) == ToolBeginWithin(MaxToolCalls, h)

\* captureEntityState calls of a tool call with targets t, over lights 1..n
RECURSIVE CaptureCalls(_, _)
CaptureCalls(t, n) == IF n = 0 THEN 0 ELSE t[<<"light", n>>] + CaptureCalls(t, n - 1)

\* the targets of one tool call: how many captureEntityState calls it makes
\* for each entity (the list the model passes may name an entity twice).
\* The lights are interchangeable, so every tool call names light 1.
ToolTargets ==
    {t \in [Entities -> 0..MaxOverlap] :
        /\ CaptureCalls(t, NumLights) \in 1..MaxOverlap
        /\ t[<<"light", 1>>] > 0
        /\ \A e \in Entities \ Lights : t[e] = 0}

\* the state a setLightState call asks for; every light starts off
ToolStates == {"on"}

\* part_014:106-107 and generationTracker.ts:65-66: captureEntityState is
\* called for every target; each call returns at once when no generation is
\* active and otherwise sends its state request
ToolCapture(h, targets, state) ==
    /\ handlers[h].tool = "begun"
    /\ LET sent == IF activeGeneration = 0 THEN NoPending ELSE targets
       IN  handlers' = [handlers EXCEPT ![h] =
               [@ EXCEPT !.tool = IF sent = NoPending THEN "mutating" ELSE "capturing",
                         !.toolState = state,
                         !.pending = sent,
                         !.toMutate = {e \in Entities : targets[e] > 0},
                         !.captured = {e \in Entities : targets[e] > 0},
                         !.activeAtCall = IF sent = NoPending THEN 0
                                          ELSE activeGeneration]]
    /\ UNCHANGED <<activeGeneration, gens, abortController, aborted, backend, isAwake,
                   wakeTimeout, wakeTimers, lastPartialText, partialTimeout, timers, timerCount,
                   processedUtteranceIds, restoreLog, eventCount, toolCount, dvars, cvars>>

\* generationTracker.ts:91-92, with the findIndex test left out
HasSnapshotMutNever(generation, entityId) == FALSE

\* generationTracker.ts:90-93

HasSnapshot(generation, entityId) ==
    \E i \in 1..Len(generation.entitySnapshots) :
        generation.entitySnapshots[i].entity_id = entityId

\* generationTracker.ts:83-101: the ledger after a state response for entityId
RecordSnapshot(generation, entityId, entityState) ==
    LET counted == [generation EXCEPT !.fetched[entityId] = @ + 1]
    IN  IF HasSnapshot(generation, entityId) THEN counted
        ELSE [counted EXCEPT !.entitySnapshots =
                 Append(@, [entity_id |-> entityId, state |-> entityState.state,
                            attributes |-> entityState.attributes])]

\* generationTracker.ts:68-108, with the response.ok test of line 77 left
\* out: a failed request records what the backend holds
CaptureReturnMutRecord(h, e, ok) ==
    /\ handlers[h].tool = "capturing"
    /\ handlers[h].pending[e] > 0
    /\ LET left == [handlers[h].pending EXCEPT ![e] = @ - 1]
       IN  handlers' = [handlers EXCEPT ![h] =
               [@ EXCEPT !.pending = left,
                         !.tool = IF left = NoPending THEN "mutating" ELSE "capturing",
                         !.activeAtCall = IF left = NoPending THEN 0 ELSE @]]
    /\ IF activeGeneration # 0
       THEN gens' = [gens EXCEPT ![activeGeneration] = RecordSnapshot(@, e, backend[e])]
       ELSE UNCHANGED gens
    /\ UNCHANGED <<activeGeneration, abortController, aborted, backend, isAwake,
                   wakeTimeout, wakeTimers, lastPartialText, partialTimeout, timers, timerCount,
                   processedUtteranceIds, restoreLog, eventCount, toolCount, dvars, cvars>>

\* generationTracker.ts:68-108: the state request of one captureEntityState
\* call returns.  A failed request, and a response that finds no active
\* generation (the TypeError is caught), record nothing.
CaptureReturn(h, e, ok) ==
    /\ handlers[h].tool = "capturing"
    /\ handlers[h].pending[e] > 0
    /\ LET left == [handlers[h].pending EXCEPT ![e] = @ - 1]
       IN  handlers' = [handlers EXCEPT ![h] =
               [@ EXCEPT !.pending = left,
                         !.tool = IF left = NoPending THEN "mutating" ELSE "capturing",
                         !.activeAtCall = IF left = NoPending THEN 0 ELSE @]]
    /\ IF ok /\ activeGeneration # 0
       THEN gens' = [gens EXCEPT ![activeGeneration] = RecordSnapshot(@, e, backend[e])]
       ELSE UNCHANGED gens
    /\ UNCHANGED <<activeGeneration, abortController, aborted, backend, isAwake,
                   wakeTimeout, wakeTimers, lastPartialText, partialTimeout, timers, timerCount,
                   processedUtteranceIds, restoreLog, eventCount, toolCount, dvars, cvars>>

\* part_014:717: the temperature a setAreaTemperature call asks for
AreaTemperature == 21

\* part_014:146-150, 734-737: the mutating call of the tool for target e
MutatingCall(rec, e) ==
    IF e \in Climates
    THEN ServiceCall("climate", "set_temperature", e,
                     [NoAttributes EXCEPT !["temperature"] = AreaTemperature])
    ELSE ServiceCall(e[1], IF rec.toolState = "on" THEN "turn_on" ELSE "turn_off",
                     e, NoAttributes)

\* part_014:109-150, 732-745: the mutating call for one target.  A failed
\* call is caught and reported in the tool's result and leaves the backend
\* as it was; only the successful call is modelled.
ToolMutate(h, e) ==
    /\ handlers[h].tool = "mutating"
    /\ e \in handlers[h].toMutate
    /\ LET rec  == handlers[h]
           left == rec.toMutate \ {e}
           call == MutatingCall(rec, e)
       IN  /\ backend' = [backend EXCEPT ![e] = ApplyService(@, call)]
           /\ handlers' = [handlers EXCEPT ![h] =
                  IF left # {} THEN [rec EXCEPT !.toMutate = left]
                  ELSE IF rec.pc \in {"done", "threw"} THEN IdleHandler
                  ELSE [rec EXCEPT !.toMutate = {}, !.tool = "none", !.captured = {}]]
    /\ UNCHANGED <<activeGeneration, gens, abortController, aborted, isAwake,
                   wakeTimeout, wakeTimers, lastPartialText, partialTimeout, timers, timerCount,
                   processedUtteranceIds, restoreLog, eventCount, toolCount, dvars, cvars>>

\* part_014:719-733: setAreaTemperature, a state-changing tool the model
\* calls: it looks up the climate entities of the area and issues a
\* set_temperature call for each of them.  It calls neither
\* recordToolExecution nor captureEntityState.
AreaTemperatureBegin(h) ==
    /\ handlers[h].pc = "streaming"
    /\ handlers[h].tool = "none"
    /\ toolCount < MaxToolCalls
    /\ toolCount' = toolCount + 1
    /\ handlers' = [handlers EXCEPT ![h] =
           [@ EXCEPT !.tool = "mutating", !.toMutate = Climates, !.captured = {}]]
    /\ UNCHANGED <<activeGeneration, gens, abortController, aborted, backend, isAwake,
                   wakeTimeout, wakeTimers, lastPartialText, partialTimeout, timers, timerCount,
                   processedUtteranceIds, restoreLog, eventCount, dvars, cvars>>

(***************************************************************************)
(* part_015:671-716: the end of the model call                             *)
(***************************************************************************)
\* generationTracker.ts:255-266, with line 265 left out
CompleteGenerationMutKeep == UNCHANGED activeGeneration

\* generationTracker.ts:255-266
completeGeneration == activeGeneration' = 0

\* the stream ends normally: completeGeneration, return result
StreamFinish(h) ==
    /\ handlers[h].pc = "streaming"
    /\ handlers[h].tool = "none"
    /\ completeGeneration
    /\ handlers' = [handlers EXCEPT ![h] = [@ EXCEPT !.pc = "analysed"]]
    /\ UNCHANGED <<gens, abortController, aborted, backend, isAwake, wakeTimeout, wakeTimers,
                   lastPartialText, partialTimeout, timers, timerCount,
                   processedUtteranceIds, restoreLog, eventCount, toolCount, dvars, cvars>>

\* the signal was aborted: AbortError is caught and "" returned.  A tool
\* that is executing is not interrupted.
StreamAbort(h) ==
    /\ handlers[h].pc = "streaming"
    /\ handlers[h].signal \in aborted
    /\ handlers' = [handlers EXCEPT ![h] = [@ EXCEPT !.pc = "analysed"]]
    /\ UNCHANGED <<activeGeneration, gens, abortController, aborted, backend, isAwake,
                   wakeTimeout, wakeTimers, lastPartialText, partialTimeout, timers, timerCount,
                   processedUtteranceIds, restoreLog, eventCount, toolCount, dvars, cvars>>

\* any other error is rethrown by analyse and by its caller
StreamError(h) ==
    /\ handlers[h].pc = "streaming"
    /\ handlers' = [handlers EXCEPT ![h] = Thrown(@)]
    /\ UNCHANGED <<activeGeneration, gens, abortController, aborted, backend, isAwake,
                   wakeTimeout, wakeTimers, lastPartialText, partialTimeout, timers, timerCount,
                   processedUtteranceIds, restoreLog, eventCount, toolCount, dvars, cvars>>

\* main.ts:141-148, 159-179, 273-288, httpServer.ts:131-149: the caller of
\* analyse, after the log lines that follow its return
AfterAnalyse(h) ==
    /\ handlers[h].pc = "analysed"
    /\ LET rec == handlers[h]
       IN  /\ handlers' = [handlers EXCEPT ![h] = Returned(rec)]
           /\ CASE rec.path = "awake" ->
                     /\ isAwake' = FALSE
                     /\ ClearWakeTimer
                     /\ processedUtteranceIds' = TrimProcessed(processedUtteranceIds)
                     /\ UNCHANGED partialTimeout
                [] rec.path = "timer" ->
                     /\ isAwake' = FALSE
                     /\ ClearWakeTimer
                     /\ partialTimeout' = 0
                     /\ UNCHANGED processedUtteranceIds
                [] OTHER ->
                     UNCHANGED <<isAwake, wakeTimeout, wakeTimers, partialTimeout, processedUtteranceIds>>
    /\ UNCHANGED <<activeGeneration, gens, abortController, aborted, backend,
                   lastPartialText, timers, timerCount, restoreLog, eventCount, toolCount, dvars, cvars>>

(***************************************************************************)
(* generationTracker.ts: cancelAndRollback                                 *)
(***************************************************************************)
\* generationTracker.ts:125-138: entry, up to the first await
RollbackCall(h) ==
    /\ handlers[h].pc = "rollbackCall"
    /\ handlers' = [handlers EXCEPT ![h] =
           IF activeGeneration = 0
           THEN [@ EXCEPT !.pc = "rollbackNone"]
           ELSE [@ EXCEPT !.pc = "rollbackAbort", !.generation = activeGeneration]]
    /\ UNCHANGED <<activeGeneration, gens, abortController, aborted, backend, isAwake,
                   wakeTimeout, wakeTimers, lastPartialText, partialTimeout, timers, timerCount,
                   processedUtteranceIds, restoreLog, eventCount, toolCount, dvars, cvars>>

\* generationTracker.ts:126-127: after the log line, return false
RollbackNone(h) ==
    /\ handlers[h].pc = "rollbackNone"
    /\ handlers' = [handlers EXCEPT ![h] =
           [@ EXCEPT !.pc = "rollbackReturned", !.rollbackSuccess = "false"]]
    /\ UNCHANGED <<activeGeneration, gens, abortController, aborted, backend, isAwake,
                   wakeTimeout, wakeTimers, lastPartialText, partialTimeout, timers, timerCount,
                   processedUtteranceIds, restoreLog, eventCount, toolCount, dvars, cvars>>

\* the ledger the loop of cancelAndRollback iterates; the array is read live
Ledger(rec) == gens[rec.generation].entitySnapshots

\* where the for-of loop stands after position idx has been handled
LoopFrom(rec, idx) ==
    IF idx > Len(Ledger(rec))
    THEN [rec EXCEPT !.pc = "rollbackLogged", !.idx = 0]
    ELSE [rec EXCEPT !.pc = "restoring", !.idx = idx]

\* generationTracker.ts:140-153: abort the generation's controller and
\* enter the loop
RollbackAbort(h) ==
    /\ handlers[h].pc = "rollbackAbort"
    /\ aborted' = aborted \cup {gens[handlers[h].generation].abortController}
    /\ handlers' = [handlers EXCEPT ![h] = LoopFrom(@, 1)]
    /\ UNCHANGED <<activeGeneration, gens, abortController, backend, isAwake,
                   wakeTimeout, wakeTimers, lastPartialText, partialTimeout, timers, timerCount,
                   processedUtteranceIds, restoreLog, eventCount, toolCount, dvars, cvars>>

\* generationTracker.ts:151-163, with a snapshot of another domain than
\* light, climate and media_player counted as a failure
TallyMutUnknownFails(rec, ok) ==
    IF ok /\ Ledger(rec)[rec.idx].entity_id[1] \in {"light", "climate", "media_player"}
    THEN LoopFrom([rec EXCEPT !.rollbackSuccesses = @ + 1], rec.idx + 1)
    ELSE LoopFrom([rec EXCEPT !.rollbackFailures = @ + 1], rec.idx + 1)

\* generationTracker.ts:151-163: count the outcome and go on with the loop
Tally(rec, ok) ==
    IF ok
    THEN LoopFrom([rec EXCEPT !.rollbackSuccesses = @ + 1], rec.idx + 1)
    ELSE LoopFrom([rec EXCEPT !.rollbackFailures = @ + 1], rec.idx + 1)

\* generationTracker.ts:153, with a call that names another entity
RestoreTargetMutOther(rec) == [Ledger(rec)[rec.idx] EXCEPT !.entity_id = CHOOSE e \in Entities : e # @]

\* generationTracker.ts:151-153: the snapshot restoreEntityState is called with
RestoreTarget(rec) == Ledger(rec)[rec.idx]

\* generationTracker.ts:151-163, 179-252: restoreEntityState for the snapshot
\* at the loop position.  failAt = 0: every service call succeeds; otherwise
\* the failAt-th call throws and the calls after it are not issued.
Restore(h, failAt) ==
    /\ handlers[h].pc = "restoring"
    /\ LET rec      == handlers[h]
           snapshot == RestoreTarget(rec)
           calls    == RestoreCalls(snapshot)
           issued   == IF failAt = 0 THEN calls ELSE SubSeq(calls, 1, failAt)
           applied  == IF failAt = 0 THEN calls ELSE SubSeq(calls, 1, failAt - 1)
       IN  /\ failAt \in 0..Len(calls)
           /\ backend' = IF applied = <<>> THEN backend
                         ELSE [backend EXCEPT ![snapshot.entity_id] = ApplyServices(@, applied)]
           /\ restoreLog' = restoreLog \cup
                  {[run |-> rec.run, generation |-> rec.generation,
                    entity_id |-> issued[i].entity_id, service |-> issued[i].service,
                    ok |-> i # failAt] : i \in 1..Len(issued)}
           /\ handlers' = [handlers EXCEPT ![h] = Tally(rec, failAt = 0)]
    /\ UNCHANGED <<activeGeneration, gens, abortController, aborted, isAwake,
                   wakeTimeout, wakeTimers, lastPartialText, partialTimeout, timers, timerCount,
                   processedUtteranceIds, eventCount, toolCount, dvars, cvars>>

\* generationTracker.ts:172-175
RollbackFinish(h) ==
    /\ handlers[h].pc = "rollbackLogged"
    /\ activeGeneration' = 0
    /\ handlers' = [handlers EXCEPT ![h] =
           [@ EXCEPT !.pc = "rollbackReturned",
                     !.rollbackSuccess = IF handlers[h].rollbackFailures = 0
                                         THEN "true" ELSE "false"]]
    /\ UNCHANGED <<gens, abortController, aborted, backend, isAwake, wakeTimeout, wakeTimers,
                   lastPartialText, partialTimeout, timers, timerCount,
                   processedUtteranceIds, restoreLog, eventCount, toolCount, dvars, cvars>>

(***************************************************************************)
(* main.ts:184-291: the partial branch                                     *)
(***************************************************************************)
\* main.ts:233-290: clear the partial timer and arm a new one when awake
ArmPartialTimer(id) ==
    LET cleared == {t \in timers : t.handle # partialTimeout}
    IN  IF isAwake /\ USE_PARTIAL_RESULTS
        THEN /\ timerCount' = timerCount + 1
             /\ partialTimeout' = timerCount + 1
             /\ timers' = cleared \cup {[handle |-> timerCount + 1, id |-> id]}
        ELSE /\ timers' = cleared
             /\ UNCHANGED <<timerCount, partialTimeout>>

\* main.ts:209-290: from lastPartialText = text on, up to the next await
PartialContinue(h, rec) ==
    /\ lastPartialText' = rec.text
    /\ IF ~isAwake /\ ContainsWakeWord(rec.text)
       THEN /\ isAwake' = TRUE
            /\ ArmWakeTimer(rec.run)
            /\ handlers' = [handlers EXCEPT ![h] = [rec EXCEPT !.pc = "partialArm"]]
            /\ UNCHANGED <<timers, timerCount, partialTimeout>>
       ELSE /\ UNCHANGED <<isAwake, wakeTimeout, wakeTimers>>
            /\ ArmPartialTimer(rec.id)
            /\ handlers' = [handlers EXCEPT ![h] = Returned(rec)]

\* main.ts:184-192: a partial event arrives
PartialEventWithin(limit, id, text) ==
    /\ HasIdleWithin(limit)
    /\ handlers' = [handlers EXCEPT ![FirstIdle] =
           [NewHandler("partial") EXCEPT !.pc = "partialStart", !.id = id, !.text = text]]
    /\ eventCount' = eventCount + 1
    /\ UNCHANGED <<activeGeneration, gens, abortController, aborted, backend, isAwake,
                   wakeTimeout, wakeTimers, lastPartialText, partialTimeout, timers, timerCount,
                   processedUtteranceIds, restoreLog, toolCount, dvars, cvars>>

PartialEvent(id, text) == PartialEventWithin(MaxEvents, id, text)

\* main.ts:194-200: the continuation check of the partial branch
PartialCheck(h) ==
    /\ handlers[h].pc = "partialStart"
    /\ IF detectUtteranceContinuation(handlers[h].id, handlers[h].text)
       THEN /\ handlers' = [handlers EXCEPT ![h] = [@ EXCEPT !.pc = "rollbackCall"]]
            /\ UNCHANGED <<isAwake, wakeTimeout, wakeTimers, lastPartialText, partialTimeout,
                           timers, timerCount>>
       ELSE PartialContinue(h, handlers[h])
    /\ UNCHANGED <<activeGeneration, gens, abortController, aborted, backend,
                   processedUtteranceIds, restoreLog, eventCount, toolCount, dvars, cvars>>

\* main.ts:233-290: after the wake-word log lines of the partial branch
PartialArm(h) ==
    /\ handlers[h].pc = "partialArm"
    /\ ArmPartialTimer(handlers[h].id)
    /\ handlers' = [handlers EXCEPT ![h] = Returned(@)]
    /\ UNCHANGED <<isAwake, wakeTimeout, wakeTimers, activeGeneration, gens, abortController, aborted, backend,
                   lastPartialText, processedUtteranceIds, restoreLog, eventCount, toolCount, dvars, cvars>>

\* main.ts:93-101, 201-210: cancelAndRollback has returned and its result
\* is logged; the branch goes on
AfterRollback(h) ==
    /\ handlers[h].pc = "rollbackReturned"
    /\ LET rec == [handlers[h] EXCEPT !.generation = 0, !.rollbackSuccesses = 0,
                                      !.rollbackFailures = 0, !.rollbackSuccess = "none"]
       IN  IF rec.kind = "boundary"
           THEN /\ BoundaryContinue(h, rec)
                /\ UNCHANGED <<lastPartialText, partialTimeout, timers, timerCount>>
           ELSE /\ PartialContinue(h, rec)
                /\ UNCHANGED <<abortController, aborted, processedUtteranceIds>>
    /\ UNCHANGED <<activeGeneration, gens, backend, restoreLog, eventCount, toolCount, dvars, cvars>>

(***************************************************************************)
(* Timers                                                                  *)
(***************************************************************************)
\* main.ts:240-262: a pending partial timer fires; its callback runs as an
\* asynchronous handler of its own
PartialTimerFireWithin(limit, t) ==
    /\ t \in timers
    /\ HasIdleWithin(limit)
    /\ timers' = timers \ {t}
    /\ LET h   == FirstIdle
           rec == [NewHandler("timer") EXCEPT !.id = t.id]
           partialId == PartialId(t.id)
           commandText == stripWakeWord(lastPartialText)
       IN  IF /\ lastPartialText # NoText
              /\ lastPartialText # <<>>
              /\ ~SetHas(processedUtteranceIds, t.id)
              /\ ~SetHas(processedUtteranceIds, partialId)
           THEN /\ handlers' = [handlers EXCEPT ![h] =
                       [rec EXCEPT !.pc = IF trim(commandText) = <<>>
                                          THEN "timerSkip" ELSE "timerPromote",
                                   !.commandText = commandText,
                                   !.utteranceId = partialId, !.path = "timer"]]
                /\ UNCHANGED partialTimeout
           ELSE /\ handlers' = [handlers EXCEPT ![h] = Returned(rec)]
                /\ partialTimeout' = 0
    /\ eventCount' = eventCount + 1
    /\ UNCHANGED <<activeGeneration, gens, abortController, aborted, backend, isAwake,
                   wakeTimeout, wakeTimers, lastPartialText, timerCount, processedUtteranceIds,
                   restoreLog, toolCount, dvars, cvars>>

PartialTimerFire(t) == PartialTimerFireWithin(MaxEvents, t)

\* main.ts:246-255: nothing is left after the wake word
TimerSkip(h) ==
    /\ handlers[h].pc = "timerSkip"
    /\ partialTimeout' = 0
    /\ handlers' = [handlers EXCEPT ![h] = Returned(@)]
    /\ UNCHANGED <<activeGeneration, gens, abortController, aborted, backend, isAwake,
                   wakeTimeout, wakeTimers, lastPartialText, timers, timerCount,
                   processedUtteranceIds, restoreLog, eventCount, toolCount, dvars, cvars>>

\* main.ts:263-269: the partial is promoted to a command
TimerPromote(h) ==
    /\ handlers[h].pc = "timerPromote"
    /\ processedUtteranceIds' =
           SetAdd(SetAdd(processedUtteranceIds, handlers[h].id), handlers[h].utteranceId)
    /\ abort
    /\ handlers' = [handlers EXCEPT ![h] = [@ EXCEPT !.pc = "analyse"]]
    /\ UNCHANGED <<activeGeneration, gens, backend, isAwake, wakeTimeout, wakeTimers,
                   lastPartialText, partialTimeout, timers, timerCount, restoreLog, eventCount, toolCount, dvars, cvars>>

\* main.ts:114-118, 223-227: the wake timer fires
WakeTimerFire ==
    /\ \E t \in wakeTimers : wakeTimers' = wakeTimers \ {t}
    /\ isAwake' = FALSE
    /\ wakeTimeout' = 0
    /\ UNCHANGED <<activeGeneration, gens, abortController, aborted, backend, handlers,
                   lastPartialText, partialTimeout, timers, timerCount,
                   processedUtteranceIds, restoreLog, eventCount, toolCount, dvars, cvars>>

(***************************************************************************)
(* httpServer.ts:100-133: POST /voice-command                              *)
(***************************************************************************)
HttpId == <<"http">>

HttpRequest(text, utteranceId) ==
    /\ HasIdle
    /\ trim(text) # <<>>
    /\ handlers' = [handlers EXCEPT ![FirstIdle] =
           [NewHandler("http") EXCEPT !.pc = "analyse", !.path = "http",
                               !.text = text, !.commandText = trim(text),
                               !.utteranceId = IF utteranceId = NoId THEN HttpId
                                               ELSE utteranceId]]
    /\ eventCount' = eventCount + 1
    /\ UNCHANGED <<activeGeneration, gens, abortController, aborted, backend, isAwake,
                   wakeTimeout, wakeTimers, lastPartialText, partialTimeout, timers, timerCount,
                   processedUtteranceIds, restoreLog, toolCount, dvars, cvars>>

(***************************************************************************)
(* The events of the model.                                                *)
(***************************************************************************)
\* "polly"
TextWake == WAKE_WORD
\* "on", a command without the wake word
TextCommand == <<"o", "n">>
\* "Polly on"
TextWakeCommand == <<"P", "o", "l", "l", "y", " ", "o", "n">>
\* "Polly on in bed", the command continued
TextContinued == TextWakeCommand \o <<" ", "i", "n", " ", "b", "e", "d">>

\* the transcription events of the engine's specification: utterance u1 is
\* heard as the command and then as the command continued
TranscriptionEvents ==
    {[id |-> <<"u1">>, text |-> TextWakeCommand],
     [id |-> <<"u1">>, text |-> TextContinued]}

\* the bodies POSTed to /voice-command; utteranceId is optional and left out
HttpBodies == {[text |-> TextCommand, utteranceId |-> NoId]}

(***************************************************************************)
(* The specification of the engine.  Every text of its vocabulary holds a  *)
(* command, so the timer callback never takes its empty-command exit       *)
(* (TimerSkip), which is left out of Next.                                 *)
(***************************************************************************)
Init ==
    /\ activeGeneration = 0
    /\ gens = <<>>
    /\ abortController = 1
    /\ aborted = {}
    /\ backend = [e \in Entities |-> EntityOff]
    /\ handlers = [h \in HandlerIds |-> IdleHandler]
    /\ isAwake = FALSE
    /\ wakeTimeout = 0
    /\ wakeTimers = {}
    /\ lastPartialText = NoText
    /\ partialTimeout = 0
    /\ timers = {}
    /\ timerCount = 0
    /\ processedUtteranceIds = <<>>
    /\ eventCount = 0
    /\ toolCount = 0
    /\ restoreLog = {}
    /\ dId = NoId
    /\ dText = <<>>
    /\ dResult = "none"
    /\ rSnapshot = NoSnapshot
    /\ rRestore = NotRestored
    /\ USE_PARTIAL_RESULTS = TRUE

Next ==
    \/ \E ev \in TranscriptionEvents : BoundaryEvent(ev.id, ev.text)
    \/ \E ev \in TranscriptionEvents : PartialEvent(ev.id, ev.text)
    \/ \E body \in HttpBodies : HttpRequest(body.text, body.utteranceId)
    \/ \E t \in timers : PartialTimerFire(t)
    \/ WakeTimerFire
    \/ \E h \in HandlerIds :
          \/ WakeDetected(h)
          \/ PartialCheck(h)
          \/ PartialArm(h)
          \/ TimerPromote(h)
          \/ RollbackCall(h)
          \/ RollbackNone(h)
          \/ RollbackAbort(h)
          \/ \E failAt \in 0..2 : Restore(h, failAt)
          \/ RollbackFinish(h)
          \/ AfterRollback(h)
          \/ AnalyseStart(h)
          \/ StreamStart(h)
          \/ ToolBegin(h)
          \/ \E targets \in ToolTargets, state \in ToolStates : ToolCapture(h, targets, state)
          \/ \E e \in Entities, ok \in BOOLEAN : CaptureReturn(h, e, ok)
          \/ \E e \in Entities : ToolMutate(h, e)
          \/ StreamFinish(h)
          \/ StreamAbort(h)
          \/ StreamError(h)
          \/ AfterAnalyse(h)

Spec == Init /\ [][Next]_vars

(***************************************************************************)
(* The specification of the wake state machine: utterance u1 is heard as   *)
(* the wake word alone, utterance u2 as a command without the wake word,   *)
(* utterance u3 as the wake word followed by a command.  No text of an     *)
(* utterance continues another text of it, so no handler calls             *)
(* cancelAndRollback, and the model calls issue no tool call.              *)
(***************************************************************************)
WakeEvents ==
    {[id |-> <<"u1">>, text |-> TextWake],
     [id |-> <<"u2">>, text |-> TextCommand],
     [id |-> <<"u3">>, text |-> TextWakeCommand]}

NextWake ==
    \/ \E ev \in WakeEvents : BoundaryEvent(ev.id, ev.text)
    \/ \E ev \in WakeEvents : PartialEvent(ev.id, ev.text)
    \/ \E t \in timers : PartialTimerFire(t)
    \/ WakeTimerFire
    \/ \E h \in HandlerIds :
          \/ WakeDetected(h)
          \/ PartialCheck(h)
          \/ PartialArm(h)
          \/ TimerSkip(h)
          \/ TimerPromote(h)
          \/ AnalyseStart(h)
          \/ StreamStart(h)
          \/ StreamFinish(h)
          \/ StreamAbort(h)
          \/ StreamError(h)
          \/ AfterAnalyse(h)

SpecWake == Init /\ [][NextWake]_vars

(***************************************************************************)
(* The specification of silence: utterance u1 is heard as the wake word    *)
(* alone, and for utterance u2 the transcriber delivers an empty text.     *)
(* No partial text holds a command, so no partial is promoted, and one     *)
(* command at most is started, so no model call is aborted.                *)
(***************************************************************************)
TextEmpty == <<>>

SilenceEvents ==
    {[id |-> <<"u1">>, text |-> TextWake],
     [id |-> <<"u2">>, text |-> TextEmpty]}

NextSilence ==
    \/ \E ev \in SilenceEvents : BoundaryEvent(ev.id, ev.text)
    \/ \E ev \in SilenceEvents : PartialEvent(ev.id, ev.text)
    \/ \E t \in timers : PartialTimerFire(t)
    \/ WakeTimerFire
    \/ \E h \in HandlerIds :
          \/ WakeDetected(h)
          \/ PartialCheck(h)
          \/ PartialArm(h)
          \/ TimerSkip(h)
          \/ AnalyseStart(h)
          \/ StreamStart(h)
          \/ StreamFinish(h)
          \/ StreamError(h)
          \/ AfterAnalyse(h)

SpecSilence == Init /\ [][NextSilence]_vars

(***************************************************************************)
(* The specification of the tool catalog: commands arrive over HTTP, and   *)
(* the model call of a command calls setLightState or setAreaTemperature.  *)
(* No command is cancelled, so no model call ends by an AbortError and no  *)
(* handler calls cancelAndRollback.                                        *)
(***************************************************************************)
NextTools ==
    \/ \E body \in HttpBodies : HttpRequest(body.text, body.utteranceId)
    \/ \E h \in HandlerIds :
          \/ AnalyseStart(h)
          \/ StreamStart(h)
          \/ ToolBegin(h)
          \/ \E targets \in ToolTargets, state \in ToolStates : ToolCapture(h, targets, state)
          \/ \E e \in Entities, ok \in BOOLEAN : CaptureReturn(h, e, ok)
          \/ AreaTemperatureBegin(h)
          \/ \E e \in Entities : ToolMutate(h, e)
          \/ StreamFinish(h)
          \/ StreamError(h)
          \/ AfterAnalyse(h)

SpecTools == Init /\ [][NextTools]_vars

(***************************************************************************)
(* The specification of the ledger: commands arrive over HTTP, and the     *)
(* model call of a command calls setLightState up to twice for light 1     *)
(* (streamText runs up to maxSteps steps, part_015:590).                   *)
(***************************************************************************)
LedgerTargets == {t \in ToolTargets : CaptureCalls(t, NumLights) = 1}

NextLedger ==
    \/ \E body \in HttpBodies : HttpRequest(body.text, body.utteranceId)
    \/ \E h \in HandlerIds :
          \/ AnalyseStart(h)
          \/ StreamStart(h)
          \/ ToolBeginWithin(MaxLedgerToolCalls, h)
          \/ \E targets \in LedgerTargets, state \in ToolStates : ToolCapture(h, targets, state)
          \/ \E e \in Entities, ok \in BOOLEAN : CaptureReturn(h, e, ok)
          \/ \E e \in Entities : ToolMutate(h, e)
          \/ StreamFinish(h)
          \/ StreamError(h)
          \/ AfterAnalyse(h)

SpecLedger == Init /\ [][NextLedger]_vars

(***************************************************************************)
(* The specification of the cancellation race: a command for utterance u1  *)
(* is POSTed with its utterance id, the utterance is heard as a boundary   *)
(* event that holds the wake word and the command, and as a partial event  *)
(* that continues the command.  Three handlers may be suspended at once,   *)
(* and a tool call names one light once.                                   *)
(***************************************************************************)
RaceBodies == {[text |-> TextCommand, utteranceId |-> <<"u1">>]}

RaceBoundaryEvents == {[id |-> <<"u1">>, text |-> TextWakeCommand]}

RacePartialEvents == {[id |-> <<"u1">>, text |-> TextContinued]}

RaceTargets == {t \in ToolTargets : CaptureCalls(t, NumLights) = 1}

InitRace ==
    /\ activeGeneration = 0
    /\ gens = <<>>
    /\ abortController = 1
    /\ aborted = {}
    /\ backend = [e \in Entities |-> EntityOff]
    /\ handlers = [h \in RaceHandlerIds |-> IdleHandler]
    /\ isAwake = FALSE
    /\ wakeTimeout = 0
    /\ wakeTimers = {}
    /\ lastPartialText = NoText
    /\ partialTimeout = 0
    /\ timers = {}
    /\ timerCount = 0
    /\ processedUtteranceIds = <<>>
    /\ eventCount = 0
    /\ toolCount = 0
    /\ restoreLog = {}
    /\ dId = NoId
    /\ dText = <<>>
    /\ dResult = "none"
    /\ rSnapshot = NoSnapshot
    /\ rRestore = NotRestored
    /\ USE_PARTIAL_RESULTS = TRUE

NextRace ==
    \/ \E body \in RaceBodies : HttpRequest(body.text, body.utteranceId)
    \/ \E ev \in RaceBoundaryEvents : BoundaryEvent(ev.id, ev.text)
    \/ \E ev \in RacePartialEvents : PartialEvent(ev.id, ev.text)
    \/ \E t \in timers : PartialTimerFire(t)
    \/ WakeTimerFire
    \/ \E h \in RaceHandlerIds :
          \/ WakeDetected(h)
          \/ PartialCheck(h)
          \/ PartialArm(h)
          \/ TimerPromote(h)
          \/ RollbackCall(h)
          \/ RollbackNone(h)
          \/ RollbackAbort(h)
          \/ \E failAt \in 0..2 : Restore(h, failAt)
          \/ RollbackFinish(h)
          \/ AfterRollback(h)
          \/ AnalyseStart(h)
          \/ StreamStart(h)
          \/ ToolBegin(h)
          \/ \E targets \in RaceTargets, state \in ToolStates : ToolCapture(h, targets, state)
          \/ \E e \in Entities, ok \in BOOLEAN : CaptureReturn(h, e, ok)
          \/ \E e \in Entities : ToolMutate(h, e)
          \/ StreamFinish(h)
          \/ StreamAbort(h)
          \/ StreamError(h)
          \/ AfterAnalyse(h)

SpecRace == InitRace /\ [][NextRace]_vars

(***************************************************************************)
(* The specification of partial promotion: utterance u1 is heard in        *)
(* partial events as the wake word with a command and as that command      *)
(* continued, and in a boundary event as the complete command.  Promotion  *)
(* is enabled or disabled by the configuration.  The model calls issue no  *)
(* tool call, so no ledger holds a snapshot to restore.                    *)
(***************************************************************************)
PromotionPartialEvents ==
    {[id |-> <<"u1">>, text |-> TextWakeCommand],
     [id |-> <<"u1">>, text |-> TextContinued]}

PromotionBoundaryEvents == {[id |-> <<"u1">>, text |-> TextContinued]}

InitPromotion ==
    /\ activeGeneration = 0
    /\ gens = <<>>
    /\ abortController = 1
    /\ aborted = {}
    /\ backend = [e \in Entities |-> EntityOff]
    /\ handlers = [h \in HandlerIds |-> IdleHandler]
    /\ isAwake = FALSE
    /\ wakeTimeout = 0
    /\ wakeTimers = {}
    /\ lastPartialText = NoText
    /\ partialTimeout = 0
    /\ timers = {}
    /\ timerCount = 0
    /\ processedUtteranceIds = <<>>
    /\ eventCount = 0
    /\ toolCount = 0
    /\ restoreLog = {}
    /\ dId = NoId
    /\ dText = <<>>
    /\ dResult = "none"
    /\ rSnapshot = NoSnapshot
    /\ rRestore = NotRestored
    /\ USE_PARTIAL_RESULTS \in BOOLEAN

NextPromotion ==
    \/ \E ev \in PromotionPartialEvents : PartialEventWithin(MaxPartialEvents, ev.id, ev.text)
    \/ \E ev \in PromotionBoundaryEvents : BoundaryEventWithin(MaxPartialEvents, ev.id, ev.text)
    \/ \E t \in timers : PartialTimerFireWithin(MaxPartialEvents, t)
    \/ WakeTimerFire
    \/ \E h \in HandlerIds :
          \/ WakeDetected(h)
          \/ PartialCheck(h)
          \/ PartialArm(h)
          \/ TimerPromote(h)
          \/ RollbackCall(h)
          \/ RollbackNone(h)
          \/ RollbackAbort(h)
          \/ RollbackFinish(h)
          \/ AfterRollback(h)
          \/ AnalyseStart(h)
          \/ StreamStart(h)
          \/ StreamFinish(h)
          \/ StreamAbort(h)
          \/ StreamError(h)
          \/ AfterAnalyse(h)

SpecPromotion == InitPromotion /\ [][NextPromotion]_vars

(***************************************************************************)
(* The specification of a long session: the program has handled boundary   *)
(* events of earlier utterances, whose ids the set of seen ids holds, and  *)
(* goes on as the wake state machine does.                                 *)
(***************************************************************************)
\* the ids of n earlier utterances, in the order they were heard
EarlierIds(n) == [i \in 1..n |-> <<"old", i>>]

InitSession ==
    /\ activeGeneration = 0
    /\ gens = <<>>
    /\ abortController = 1
    /\ aborted = {}
    /\ backend = [e \in Entities |-> EntityOff]
    /\ handlers = [h \in HandlerIds |-> IdleHandler]
    /\ isAwake = FALSE
    /\ wakeTimeout = 0
    /\ wakeTimers = {}
    /\ lastPartialText = NoText
    /\ partialTimeout = 0
    /\ timers = {}
    /\ timerCount = 0
    /\ \E n \in {TrimThreshold - 1, TrimThreshold} :
           processedUtteranceIds = EarlierIds(n)
    /\ eventCount = 0
    /\ toolCount = 0
    /\ restoreLog = {}
    /\ dId = NoId
    /\ dText = <<>>
    /\ dResult = "none"
    /\ rSnapshot = NoSnapshot
    /\ rRestore = NotRestored
    /\ USE_PARTIAL_RESULTS = TRUE

SpecSession == InitSession /\ [][NextWake]_vars

(***************************************************************************)
(* The specification of the continuation detector alone: the registry      *)
(* holds no generation or one with any id and text, and the detector is    *)
(* evaluated once on any id and text.                                      *)
(***************************************************************************)
Pad(k) == [i \in 1..k |-> "x"]

BaseText == <<"o", "n">>
BaseTextUpper == <<"O", "n">>

DetectOldTexts == {<<>>, BaseText, BaseTextUpper, Pad(2)}

DetectNewTexts ==
    {BaseText \o Pad(k) : k \in 0..MaxPad}
      \cup {BaseTextUpper \o Pad(k) : k \in 0..MaxPad}
      \cup {Pad(k) : k \in 0..(MaxPad + 2)}
      \cup {Pad(1) \o BaseText \o Pad(k) : k \in 0..MaxPad}

DetectInit ==
    /\ \/ activeGeneration = 0 /\ gens = <<>>
       \/ /\ activeGeneration = 1
          /\ \E id \in UtteranceIds, text \in DetectOldTexts :
                 gens = <<NewGeneration(id, text, 1)>>
    /\ abortController = 1
    /\ aborted = {}
    /\ backend = [e \in Entities |-> EntityOff]
    /\ handlers = [h \in HandlerIds |-> IdleHandler]
    /\ isAwake = FALSE
    /\ wakeTimeout = 0
    /\ wakeTimers = {}
    /\ lastPartialText = NoText
    /\ partialTimeout = 0
    /\ timers = {}
    /\ timerCount = 0
    /\ processedUtteranceIds = <<>>
    /\ eventCount = 0
    /\ toolCount = 0
    /\ restoreLog = {}
    /\ dId \in UtteranceIds
    /\ dText \in DetectNewTexts
    /\ dResult = "none"
    /\ rSnapshot = NoSnapshot
    /\ rRestore = NotRestored
    /\ USE_PARTIAL_RESULTS = TRUE

Detect ==
    /\ dResult = "none"
    /\ dResult' = IF detectUtteranceContinuation(dId, dText) THEN "true" ELSE "false"
    /\ UNCHANGED <<mainvars, dId, dText, rSnapshot, rRestore>>

DetectNext == Detect

SpecDetect == DetectInit /\ [][DetectNext]_vars

(***************************************************************************)
(* The specification of one restoration: restoreEntityState is applied to  *)
(* one snapshot of a light, a climate entity or a media player.  A         *)
(* snapshot holds the state and the attributes the backend answered with;  *)
(* each attribute is absent or holds a number, which may be 0.             *)
(***************************************************************************)
RestoreEntities == {<<"light", 1>>, <<"climate", 1>>, <<"media_player", 1>>}

RestoreAttributes == [AttrKeys -> {Absent} \cup 0..MaxAttribute]

RestoreSnapshots ==
    [entity_id : RestoreEntities, state : {"off", "on"}, attributes : RestoreAttributes]

InitRestore ==
    /\ activeGeneration = 0
    /\ gens = <<>>
    /\ abortController = 1
    /\ aborted = {}
    /\ backend = [e \in Entities |-> EntityOff]
    /\ handlers = [h \in HandlerIds |-> IdleHandler]
    /\ isAwake = FALSE
    /\ wakeTimeout = 0
    /\ wakeTimers = {}
    /\ lastPartialText = NoText
    /\ partialTimeout = 0
    /\ timers = {}
    /\ timerCount = 0
    /\ processedUtteranceIds = <<>>
    /\ eventCount = 0
    /\ toolCount = 0
    /\ restoreLog = {}
    /\ dId = NoId
    /\ dText = <<>>
    /\ dResult = "none"
    /\ rSnapshot \in RestoreSnapshots
    /\ rRestore = NotRestored
    /\ USE_PARTIAL_RESULTS = TRUE

\* generationTracker.ts:179-252
restoreEntityState ==
    /\ ~rRestore.returned
    /\ rRestore' = [returned |-> TRUE, calls |-> RestoreCalls(rSnapshot)]
    /\ UNCHANGED <<mainvars, dId, dText, dResult, rSnapshot>>

NextRestore == restoreEntityState

SpecRestore == InitRestore /\ [][NextRestore]_vars

(***************************************************************************)
(* The specification of one rollback: a partial event that continues the   *)
(* command of the active generation has been detected, and its handler     *)
(* calls cancelAndRollback.  The ledger of the generation holds at most    *)
(* one snapshot for an entity; the model may have named an entity of a     *)
(* domain that restoreEntityState does not know (a switch) in a tool call. *)
(***************************************************************************)
UnknownEntity == <<"switch", 1>>

RollbackSnapshots ==
    [entity_id : {<<"light", 1>>, <<"climate", 1>>, UnknownEntity},
     state : {"off", "on"},
     attributes : {NoAttributes, [NoAttributes EXCEPT !["temperature"] = AreaTemperature]}]

RollbackLedgers ==
    {<<>>} \cup {<<s>> : s \in RollbackSnapshots}
           \cup {l \in {<<s, t>> : s \in RollbackSnapshots, t \in RollbackSnapshots} :
                      l[1].entity_id # l[2].entity_id}

InitRollback ==
    /\ \E ledger \in RollbackLedgers :
           gens = <<[NewGeneration(<<"u1">>, TextCommand, 1) EXCEPT
                        !.entitySnapshots = ledger]>>
    /\ activeGeneration \in {0, 1}
    /\ abortController = 1
    /\ aborted = {}
    /\ backend = [e \in Entities |-> EntityOn]
    /\ handlers = [h \in HandlerIds |->
                      IF h = 1
                      THEN [IdleHandler EXCEPT !.pc = "rollbackCall", !.run = 1,
                                               !.kind = "partial", !.id = <<"u1">>,
                                               !.text = TextContinued]
                      ELSE IdleHandler]
    /\ isAwake = FALSE
    /\ wakeTimeout = 0
    /\ wakeTimers = {}
    /\ lastPartialText = NoText
    /\ partialTimeout = 0
    /\ timers = {}
    /\ timerCount = 0
    /\ processedUtteranceIds = <<>>
    /\ eventCount = 1
    /\ toolCount = 0
    /\ restoreLog = {}
    /\ dId = NoId
    /\ dText = <<>>
    /\ dResult = "none"
    /\ rSnapshot = NoSnapshot
    /\ rRestore = NotRestored
    /\ USE_PARTIAL_RESULTS = TRUE

NextRollback ==
    \E h \in HandlerIds :
        \/ RollbackCall(h)
        \/ RollbackNone(h)
        \/ RollbackAbort(h)
        \/ \E failAt \in 0..2 : Restore(h, failAt)
        \/ RollbackFinish(h)
        \/ AfterRollback(h)
        \/ PartialArm(h)

SpecRollback == InitRollback /\ [][NextRollback]_vars

(***************************************************************************)
(* Properties of the continuation detector, checked under SpecDetect.      *)
(***************************************************************************)
\* the detector has been evaluated
Detected == dResult # "none"

\* newText begins with oldText and is more than 10 characters longer
PureExtension(newText, oldText) ==
    /\ Len(newText) > Len(oldText) + 10
    /\ SubSeq(newText, 1, Len(oldText)) = oldText

\* C9: detectUtteranceContinuation returns false whenever no generation is
\* active, and whenever the given utterance id differs from the active
\* generation's utterance id, whatever the new text is (a pure extension of
\* the generation's text included).
C9_FalseWithoutMatchingGeneration ==
    (Detected /\ (activeGeneration = 0 \/ Active.utteranceId # dId)) => dResult = "false"

\* C9 witness: the detector has answered false for a pure extension of the
\* active generation's text that came under another utterance id.
C9_Witness ==
    /\ Detected
    /\ activeGeneration # 0
    /\ Active.utteranceId # dId
    /\ Active.text # <<>>
    /\ PureExtension(dText, Active.text)
    /\ dResult = "false"

\* t occurs in s when letter case is ignored
OccursIgnoringCase(t, s) ==
    \E i \in 0..(Len(s) - Len(t)) :
        \A j \in 1..Len(t) : LowerChar(t[j]) = LowerChar(s[i + j])

\* C10: for an active generation with text T and a matching utterance id,
\* detectUtteranceContinuation(newText) is true exactly when
\* length(newText) > length(T) + 10 or lower-cased T is not a substring of
\* lower-cased newText; identical text is not a continuation.
C10_TrueExactlyOnLongerOrDifferent ==
    (Detected /\ activeGeneration # 0 /\ Active.utteranceId = dId) =>
        /\ (dResult = "true") <=>
               (Len(dText) > Len(Active.text) + 10 \/ ~OccursIgnoringCase(Active.text, dText))
        /\ (dText = Active.text => dResult = "false")

\* C10 witness: the length signal alone makes a continuation: the new text
\* still contains T (in another letter case) and is 11 characters longer.
C10_Witness ==
    /\ Detected
    /\ activeGeneration # 0
    /\ Active.utteranceId = dId
    /\ Active.text # <<>>
    /\ OccursIgnoringCase(Active.text, dText)
    /\ ~includes(dText, Active.text)
    /\ Len(dText) = Len(Active.text) + 11
    /\ dResult = "true"

(***************************************************************************)
(* Properties of the engine, checked under Spec.                           *)
(***************************************************************************)
\* a generation for utterance id is in flight: it is attached, entities are
\* snapshotted and its model call is outstanding under a live signal
InFlight(id) ==
    /\ activeGeneration # 0
    /\ Active.utteranceId = id
    /\ Active.entitySnapshots # <<>>
    /\ \E k \in HandlerIds :
           /\ handlers[k].pc = "streaming"
           /\ handlers[k].gen = activeGeneration
           /\ handlers[k].signal \notin aborted

\* newText contains oldText and is more than 10 characters longer
ContinuationOf(newText, oldText) ==
    /\ Len(newText) > Len(oldText) + 10
    /\ OccursIgnoringCase(oldText, newText)

\* C1: Scenario A.  When a generation for utterance id u with text T is in
\* flight and a boundary event for the same id u arrives whose text is a
\* continuation of T, the handler of that event calls cancelAndRollback
\* (and goes on to restore the snapshots and start the new generation).
C1_BoundaryContinuationRollsBack ==
    [][\A ev \in TranscriptionEvents :
          (/\ BoundaryEvent(ev.id, ev.text)
           /\ InFlight(ev.id)
           /\ ContinuationOf(ev.text, Active.text))
          => handlers'[FirstIdle].pc = "rollbackCall"]_vars

\* the positions of entityId in the ledger of generation
SnapshotsOf(generation, entityId) ==
    {i \in 1..Len(generation.entitySnapshots) :
        generation.entitySnapshots[i].entity_id = entityId}

\* C2: cancelAndRollback of a generation issues no backend call that
\* references an entity that was never captured in that generation's
\* ledger: every service call of a rollback names a snapshotted entity.
C2_RestoreOnlyCaptured ==
    \A r \in restoreLog : SnapshotsOf(gens[r.generation], r.entity_id) # {}

\* C2 witness: a rollback has returned after issuing calls for its ledger,
\* while a light the generation's tool switched on, whose capture failed,
\* is in no snapshot and has received no call.
C2_Witness ==
    \E h \in HandlerIds, e \in Entities :
        /\ handlers[h].pc = "rollbackReturned"
        /\ handlers[h].generation # 0
        /\ SnapshotsOf(gens[handlers[h].generation], e) = {}
        /\ backend[e].state = "on"
        /\ \E r \in restoreLog : r.run = handlers[h].run
        /\ \A r \in restoreLog : r.entity_id # e

RollbackReturns(h) ==
    handlers[h].pc # "rollbackReturned" /\ handlers'[h].pc = "rollbackReturned"

\* C4: after cancelAndRollback returns, no generation is attached,
\* whatever the numbers of restorations that succeeded and failed.
C4_NoneActiveAfterRollback ==
    [][\A h \in HandlerIds : RollbackReturns(h) => activeGeneration' = 0]_vars

\* the service calls of log that run issued for entityId of generation g
CallsOf(log, run, g, entityId) ==
    {r \in log : r.run = run /\ r.generation = g /\ r.entity_id = entityId}

\* C5: cancelAndRollback returns true exactly when a generation was active
\* and every snapshot in its ledger was restored without error; it returns
\* false when no generation was active, and it then issues no backend call.
C5_TrueExactlyWhenAllRestored ==
    [][\A h \in HandlerIds :
          RollbackReturns(h) =>
              LET rec    == handlers'[h]
                  g      == rec.generation
                  ledger == gens'[g].entitySnapshots
              IN  /\ (rec.rollbackSuccess = "true") <=>
                         (/\ g # 0
                          /\ \A i \in 1..Len(ledger) :
                                 /\ CallsOf(restoreLog', rec.run, g, ledger[i].entity_id) # {}
                                 /\ \A r \in CallsOf(restoreLog', rec.run, g, ledger[i].entity_id) :
                                        r.ok)
                  /\ g = 0 => \A r \in restoreLog' : r.run # rec.run]_vars

\* C6: Scenario D.  cancelAndRollback attempts a restoration for every
\* snapshot in the ledger even when an earlier one fails, returns false
\* when one fails, and its restored and failed counts sum to the size of
\* the ledger.
C6_EverySnapshotAttempted ==
    [][\A h \in HandlerIds :
          (RollbackReturns(h) /\ handlers'[h].generation # 0) =>
              LET rec    == handlers'[h]
                  g      == rec.generation
                  ledger == gens'[g].entitySnapshots
              IN  /\ rec.rollbackSuccesses + rec.rollbackFailures = Len(ledger)
                  /\ \A i \in 1..Len(ledger) :
                         CallsOf(restoreLog', rec.run, g, ledger[i].entity_id) # {}
                  /\ rec.rollbackFailures > 0 => rec.rollbackSuccess = "false"]_vars

\* C7: no double revert.  No snapshot of a generation receives restore
\* calls from two cancelAndRollback runs.
C7_NoDoubleRevert ==
    \A r1, r2 \in restoreLog :
        (r1.generation = r2.generation /\ r1.entity_id = r2.entity_id) => r1.run = r2.run

\* C8: at most one speculative command is in flight.  Whenever analyse
\* starts a generation, every other model call that is still streaming runs
\* under a signal that has been aborted.
C8_OneCommandInFlight ==
    [][\A h \in HandlerIds :
          (handlers[h].pc = "analyse" /\ handlers'[h].pc = "getLights") =>
              \A k \in HandlerIds \ {h} :
                  handlers[k].pc = "streaming" => handlers[k].signal \in aborted]_vars

\* utterance id is in the seen set
Seen(id) == \E i \in 1..Len(processedUtteranceIds) : processedUtteranceIds[i] = id

StartsGeneration(h) == handlers[h].pc = "analyse" /\ handlers'[h].pc = "getLights"

\* C13: startGeneration always leaves exactly the new generation attached,
\* with the given id, text and cancel handle, an empty snapshot ledger and
\* an empty operations list, and returns its id; the registry holds one
\* generation at most.  A generation that was active before is replaced
\* as it is: no cancel handle is invoked and no restore call is issued.
C13_StartAttachesNewGeneration ==
    [][\A h \in HandlerIds :
          StartsGeneration(h) =>
              LET g == handlers'[h].gen
              IN  /\ g = Len(gens) + 1
                  /\ Len(gens') = g
                  /\ activeGeneration' = g
                  /\ gens'[g].utteranceId = handlers[h].utteranceId
                  /\ gens'[g].text = handlers[h].commandText
                  /\ gens'[g].abortController = abortController
                  /\ gens'[g].entitySnapshots = <<>>
                  /\ gens'[g].toolCallsExecuted = <<>>
                  /\ \A k \in 1..Len(gens) : gens'[k] = gens[k]
                  /\ UNCHANGED <<aborted, abortController, backend, restoreLog>>]_vars

\* C13 witness: a generation has just been started and is attached while
\* the model call of the generation before it is still streaming under a
\* live signal, with its snapshots recorded and never restored.
C13_Witness ==
    \E h, k \in HandlerIds :
        /\ handlers[h].pc = "getLights"
        /\ handlers[h].gen = activeGeneration
        /\ handlers[k].pc = "streaming"
        /\ handlers[k].gen = activeGeneration - 1
        /\ handlers[k].signal \notin aborted
        /\ gens[handlers[k].gen].entitySnapshots # <<>>
        /\ gens[activeGeneration].entitySnapshots = <<>>
        /\ restoreLog = {}

\* the step in which the model call of handler h ends normally and analyse
\* calls completeGeneration
CompletesGeneration(h) ==
    /\ handlers[h].pc = "streaming"
    /\ handlers[h].signal \notin aborted
    /\ handlers'[h].pc = "analysed"

\* C14: completeGeneration detaches the active generation, invokes no
\* cancel handle and issues no backend call; afterwards no generation is
\* active; when none was active, nothing changes.
C14_CompleteOnlyDetaches ==
    [][\A h \in HandlerIds :
          CompletesGeneration(h) =>
              /\ activeGeneration' = 0
              /\ UNCHANGED <<gens, aborted, abortController, backend, restoreLog>>]_vars

\* C14 witness: a model call that captured a snapshot has ended normally:
\* no generation is active, only the controller that abort() replaced
\* before the call is aborted, and nothing was restored.
C14_Witness ==
    \E h \in HandlerIds :
        /\ handlers[h].pc = "analysed"
        /\ handlers[h].signal \notin aborted
        /\ handlers[h].gen = Len(gens)
        /\ gens[handlers[h].gen].entitySnapshots # <<>>
        /\ activeGeneration = 0
        /\ aborted = {1}
        /\ restoreLog = {}

\* the step in which the tool of handler h calls captureEntityState for its
\* targets
CallsCapture(h) == handlers[h].tool = "begun" /\ handlers'[h].tool # "begun"

\* C15: captureEntityState with no active generation sends no state
\* request and changes nothing; when the state request fails, the ledger is
\* left as it was and the tool that called goes on.
C15_CaptureNoopAndFailureContained ==
    [][\A h \in HandlerIds :
          /\ (CallsCapture(h) /\ activeGeneration = 0) =>
                 /\ handlers'[h].pending = NoPending
                 /\ handlers'[h].tool = "mutating"
                 /\ UNCHANGED <<activeGeneration, gens, backend, restoreLog>>
          /\ \A e \in Entities :
                 CaptureReturn(h, e, FALSE) =>
                     /\ handlers'[h].tool \in {"capturing", "mutating"}
                     /\ handlers'[h].pc = handlers[h].pc
                     /\ handlers'[h].toMutate = handlers[h].toMutate
                     /\ UNCHANGED <<activeGeneration, gens, backend, restoreLog>>]_vars

\* C15 witness: every state request of a tool failed; its generation is
\* active with an empty ledger and the tool is about to mutate.
C15_Witness ==
    \E h \in HandlerIds :
        /\ handlers[h].pc = "streaming"
        /\ handlers[h].tool = "mutating"
        /\ handlers[h].gen = activeGeneration
        /\ activeGeneration # 0
        /\ gens[activeGeneration].toolCallsExecuted # <<>>
        /\ gens[activeGeneration].entitySnapshots = <<>>
        /\ \A e \in Entities : gens[activeGeneration].fetched[e] = 0

\* the step in which the model call of handler h ends: normally, by an
\* AbortError or by another exception
ModelCallEnds(h) == handlers[h].pc = "streaming" /\ handlers'[h].pc # "streaming"

\* C16: once a model call has ended, by success, by cancellation or by an
\* unexpected failure, the generation that the call started is no longer
\* attached to the registry.
C16_DetachedWhenModelCallEnds ==
    [][\A h \in HandlerIds :
          ModelCallEnds(h) => activeGeneration' # handlers[h].gen]_vars

\* C17: an AbortError of the model call is swallowed: analyse returns and
\* the event handler goes on with the statements after the call; any other
\* exception of the model call leaves the event handler as an exception,
\* and none of the statements after the call is executed.
C17_AbortSwallowedOthersPropagate ==
    [][\A h \in HandlerIds :
          /\ StreamAbort(h) =>
                 /\ handlers'[h].pc = "analysed"
                 /\ handlers'[h].path = handlers[h].path
          /\ (StreamError(h) /\ handlers[h].kind # "http") =>
                 /\ handlers'[h].pc \in {"idle", "threw"}
                 /\ UNCHANGED <<isAwake, wakeTimeout, partialTimeout,
                                processedUtteranceIds>>]_vars

\* C17 witness: the model call of an event handler was cancelled, analyse
\* has returned and the handler is about to run the statements after it;
\* its generation was never completed.
C17_Witness ==
    \E h \in HandlerIds :
        /\ handlers[h].pc = "analysed"
        /\ handlers[h].kind # "http"
        /\ handlers[h].signal \in aborted
        /\ handlers[h].gen = activeGeneration

\* the model call of the active generation, started for utterance id, has
\* not returned
Outstanding(id) ==
    /\ activeGeneration # 0
    /\ Active.utteranceId = id
    /\ \E k \in HandlerIds :
           handlers[k].pc = "streaming" /\ handlers[k].gen = activeGeneration

\* C20: while the model call of a generation for utterance id u is
\* outstanding, the handler of a later partial event for u whose text is a
\* continuation runs its continuation check and calls cancelAndRollback,
\* and the model call is still outstanding when it does: handling the event
\* does not wait for the call.
C20_PartialHandledDuringModelCall ==
    [][\A h \in HandlerIds :
          (/\ handlers[h].pc = "partialStart"
           /\ handlers'[h].pc # "partialStart"
           /\ Outstanding(handlers[h].id)
           /\ ContinuationOf(handlers[h].text, Active.text))
          => /\ handlers'[h].pc = "rollbackCall"
             /\ \A k \in HandlerIds :
                    handlers[k].pc = "streaming" => handlers'[k].pc = "streaming"]_vars

\* C20 witness: the handler of a partial event is inside cancelAndRollback,
\* restoring the snapshots of a generation of its utterance, and the model
\* call of that generation has not returned.
C20_Witness ==
    \E h, k \in HandlerIds :
        /\ handlers[h].kind = "partial"
        /\ handlers[h].pc = "restoring"
        /\ handlers[k].pc = "streaming"
        /\ handlers[k].gen = handlers[h].generation
        /\ gens[handlers[k].gen].utteranceId = handlers[h].id
        /\ ContinuationOf(handlers[h].text, gens[handlers[k].gen].text)

\* the step in which cancelAndRollback, called by handler h, issues a
\* restore call
IssuesRestoreCall(h) == handlers[h].pc = "restoring" /\ restoreLog' # restoreLog

\* C19: whenever cancelAndRollback issues a restore call for a generation,
\* the signal that the model call of that generation runs under has been
\* aborted.
C19_AbortedBeforeRestore ==
    [][\A h, k \in RaceHandlerIds :
          (/\ IssuesRestoreCall(h)
           /\ handlers[k].pc = "streaming"
           /\ handlers[k].gen = handlers[h].generation)
          => handlers[k].signal \in aborted]_vars

(***************************************************************************)
(* Properties of partial promotion, checked under SpecPromotion.           *)
(***************************************************************************)
\* the commands started by a partial timer for the raw utterance id: the
\* generations whose id is derived from it, and the callbacks about to
\* start one
Promotions(id) ==
    Cardinality({g \in 1..Len(gens) : gens[g].utteranceId = PartialId(id)})
      + Cardinality({h \in HandlerIds :
                        /\ handlers[h].pc \in {"timerPromote", "analyse"}
                        /\ handlers[h].path = "timer"
                        /\ handlers[h].id = id})

\* the text holds a command once the wake word is stripped
HoldsCommand(text) == text # NoText /\ trim(stripWakeWord(text)) # <<>>

\* no boundary event marked the raw id seen: it is not seen, or a partial
\* timer marked it together with its derived id
NoBoundaryBefore(id) == ~Seen(id) \/ Seen(PartialId(id))

\* no partial event has started or is about to start a model call
NoPartialCommand ==
    /\ timers = {}
    /\ \A id \in UtteranceIds : Promotions(id) = 0
    /\ \A h \in HandlerIds : handlers[h].kind = "partial" => handlers[h].pc # "analyse"

\* C24: when a partial event with a command arrives while the channel is
\* awake and promotion is enabled, and its partial timer elapses with no
\* boundary event before, the last partial text is handled as a command,
\* exactly once for the utterance, under a derived id that differs from
\* the raw id; with promotion disabled no partial event starts a model call.
C24_PartialPromotedOnce ==
    [][/\ \A t \in timers :
              (/\ PartialTimerFireWithin(MaxPartialEvents, t)
               /\ HoldsCommand(lastPartialText)
               /\ NoBoundaryBefore(t.id))
              => /\ handlers'[FirstIdle].pc = "timerPromote"
                 /\ handlers'[FirstIdle].utteranceId = PartialId(t.id)
                 /\ PartialId(t.id) # t.id
       /\ \A id \in UtteranceIds : Promotions(id)' <= 1
       /\ ~USE_PARTIAL_RESULTS => NoPartialCommand']_vars

\* the generation of a command promoted from a partial of utterance id is
\* active and its model call has not returned
PromotedInFlight(id) ==
    /\ activeGeneration # 0
    /\ Active.utteranceId = PartialId(id)
    /\ \E k \in HandlerIds :
           handlers[k].pc = "streaming" /\ handlers[k].gen = activeGeneration

\* C26: when the first part of an utterance was promoted to a command by
\* the partial timer and the speaker continues the same utterance, the
\* handler of the continuing event, partial or boundary, detects the
\* continuation and calls cancelAndRollback for the promoted command's
\* generation (and the complete command is processed afterwards).
C26_PromotedPartialRolledBack ==
    [][/\ \A h \in HandlerIds :
              (/\ handlers[h].pc = "partialStart"
               /\ handlers'[h].pc # "partialStart"
               /\ PromotedInFlight(handlers[h].id)
               /\ ContinuationOf(handlers[h].text, Active.text))
              => handlers'[h].pc = "rollbackCall"
       /\ \A ev \in PromotionBoundaryEvents :
              (/\ BoundaryEventWithin(MaxPartialEvents, ev.id, ev.text)
               /\ PromotedInFlight(ev.id)
               /\ ContinuationOf(ev.text, Active.text))
              => handlers'[FirstIdle].pc = "rollbackCall"]_vars

(***************************************************************************)
(* Properties of the tool catalog, checked under SpecTools.                *)
(***************************************************************************)
\* the step in which the tool of handler h issues its mutating call for e
IssuesMutatingCall(h, e) ==
    /\ handlers[h].tool = "mutating"
    /\ e \in handlers[h].toMutate
    /\ e \notin handlers'[h].toMutate

\* C18: within a generation, every mutating call that a tool issues for an
\* entity e comes after a captureEntityState(e) call of the same tool
\* invocation, whichever state-changing tool of the catalog it is.
C18_CaptureBeforeMutation ==
    [][\A h \in HandlerIds, e \in Entities :
          (IssuesMutatingCall(h, e) /\ activeGeneration # 0)
              => e \in handlers[h].captured]_vars

(***************************************************************************)
(* Properties of the wake state machine, checked under SpecWake.           *)
(***************************************************************************)
\* C12: Scenario C.  When the wake deadline elapses the channel is asleep,
\* and a boundary event without the wake word that arrives while the
\* channel is asleep starts no model call and no generation: its handler
\* returns and the registry is left as it is.
C12_AsleepAfterWakeDeadline ==
    [][/\ WakeTimerFire => ~isAwake'
       /\ \A ev \in WakeEvents :
              (/\ BoundaryEvent(ev.id, ev.text)
               /\ ~Seen(ev.id)
               /\ ~isAwake
               /\ ~OccursIgnoringCase(WAKE_WORD, ev.text))
              => /\ handlers'[FirstIdle] = IdleHandler
                 /\ UNCHANGED <<activeGeneration, gens, abortController, aborted, isAwake>>]_vars

\* C12 witness: the wake word (u1) was heard, the wake deadline elapsed
\* with no event in between, and the boundary event of the command without
\* the wake word (u2) was then handled: two events in all, both ids seen
\* in this order, the channel asleep, and no generation was ever started.
C12_Witness ==
    /\ eventCount = 2
    /\ processedUtteranceIds = << <<"u1">>, <<"u2">> >>
    /\ ~isAwake
    /\ wakeTimeout = 0
    /\ gens = <<>>
    /\ \A h \in HandlerIds : handlers[h] = IdleHandler

\* C21: every event, partial or boundary, whose text holds the wake word in
\* any case leaves the channel awake with the wake timer armed anew by that
\* event.  (Stated for events whose id was not handled before.)
C21_WakeWordRearmsDeadline ==
    [][/\ \A ev \in WakeEvents :
              (/\ BoundaryEvent(ev.id, ev.text) /\ ~Seen(ev.id)
               /\ OccursIgnoringCase(WAKE_WORD, ev.text))
              => isAwake' /\ wakeTimeout' = eventCount'
       /\ \A h \in HandlerIds :
              (/\ handlers[h].pc = "partialStart"
               /\ handlers'[h].pc # "partialStart"
               /\ ~Seen(handlers[h].id)
               /\ OccursIgnoringCase(WAKE_WORD, handlers[h].text))
              => isAwake' /\ wakeTimeout' = handlers[h].run]_vars

\* the step in which the event handler h goes on after its analyse call
\* has returned
CommandHandled(h) ==
    /\ handlers[h].pc = "analysed"
    /\ handlers'[h].pc # "analysed"
    /\ handlers[h].kind # "http"

\* C22: after the model call of a command has returned, whether the
\* command came from a boundary event that holds the wake word, from a
\* boundary event while awake or from a promoted partial, the channel is
\* asleep and its wake timer is cleared.
C22_AsleepAfterCommand ==
    [][\A h \in HandlerIds :
          CommandHandled(h) => ~isAwake' /\ wakeTimeout' = 0]_vars

\* C23: an event, partial or boundary, whose utterance id is already marked
\* seen has no effect: its handler calls neither cancelAndRollback nor
\* analyse, and the awake state stays as it is.
C23_SeenIdIgnored ==
    [][/\ \A ev \in WakeEvents :
              (BoundaryEvent(ev.id, ev.text) /\ Seen(ev.id))
              => /\ handlers'[FirstIdle] = IdleHandler
                 /\ UNCHANGED <<isAwake, wakeTimeout, activeGeneration, gens>>
       /\ \A h \in HandlerIds :
              (/\ handlers[h].pc = "partialStart"
               /\ handlers'[h].pc # "partialStart"
               /\ Seen(handlers[h].id))
              => /\ handlers'[h].pc \notin {"rollbackCall", "analyse"}
                 /\ UNCHANGED <<isAwake, wakeTimeout, activeGeneration, gens>>]_vars

\* C38: a wake is not undone by an older command: when the wake timer was
\* armed by an event that arrived after the command of handler h, the
\* statements after that command's model call leave the channel awake and
\* the wake timer armed.
C38_WakeOutlivesOlderCommand ==
    [][\A h \in HandlerIds :
           (/\ handlers[h].pc = "analysed"
            /\ handlers'[h].pc # "analysed"
            /\ isAwake
            /\ wakeTimeout > handlers[h].run)
           => (isAwake' /\ wakeTimeout' = wakeTimeout)]_vars

\* C39: in every reachable state the channel is awake if and only if a
\* wake timer is armed, and at most one wake timer is armed.
C39_AwakeIffOneWakeTimer ==
    /\ isAwake <=> wakeTimers # {}
    /\ Cardinality(wakeTimers) <= 1

\* C39 witness: the wake word was heard again while the channel was awake,
\* so that a second wake timer was set, and one timer is armed
C39_Witness ==
    /\ isAwake
    /\ wakeTimers = {wakeTimeout}
    /\ \E i \in 1..Len(processedUtteranceIds), j \in 1..Len(processedUtteranceIds) :
           /\ i < j
           /\ processedUtteranceIds[i] = <<"u1">>
           /\ processedUtteranceIds[j] = <<"u3">>
    /\ wakeTimeout > 1

\* C40: when the partial timer fires and promotes, the promoted text and
\* the utterance id that is marked seen are the text and the id of one
\* partial event, the one received last, however the partial handlers
\* interleave.  Every utterance of the vocabulary is heard with one text.
C40_PromotedTextAndIdOfOneEvent ==
    \A h \in HandlerIds :
        handlers[h].pc = "timerPromote"
        => \E ev \in WakeEvents :
               /\ ev.id = handlers[h].id
               /\ handlers[h].commandText = stripWakeWord(ev.text)

(***************************************************************************)
(* Properties of the set of seen ids, checked under SpecSession.           *)
(***************************************************************************)
\* the last n elements of seq
LastOf(seq, n) == SubSeq(seq, Len(seq) - n + 1, Len(seq))

\* C25: the set of seen utterance ids never holds more than the trim
\* threshold plus one ids, and when it is trimmed the oldest ids are
\* evicted and the 50 ids inserted last are kept.
C25_SeenIdsBounded ==
    [][/\ Len(processedUtteranceIds') <= TrimThreshold + 1
       /\ Len(processedUtteranceIds') < Len(processedUtteranceIds)
              => processedUtteranceIds' = LastOf(processedUtteranceIds, KeepLast)]_vars


(***************************************************************************)
(* Properties of the ledger, checked under SpecLedger.                     *)
(***************************************************************************)
\* C27: every snapshot in the ledger of a generation holds the state its
\* entity had before the first mutating call of that generation on it, also
\* when an earlier captureEntityState call for the entity failed and a later
\* one succeeded.  While one generation has been started every mutating call
\* is a call of that generation, so the state before its first mutating
\* call on an entity is the state the entity started in.
C27_SnapshotHoldsStateBeforeFirstMutation ==
    Len(gens) = 1 =>
        \A i \in 1..Len(gens[1].entitySnapshots) :
            LET snapshot == gens[1].entitySnapshots[i]
            IN  /\ snapshot.state = EntityOff.state
                /\ snapshot.attributes = EntityOff.attributes


\* C28: a snapshot is recorded only in the ledger of the generation that
\* was active when captureEntityState was called: when that generation is
\* detached or replaced while the state request is in flight, the response
\* adds nothing to the ledger of the generation that is active when it
\* returns.
C28_SnapshotRecordedForCallingGeneration ==
    [][\A g \in 1..Len(gens) :
           Len(gens'[g].entitySnapshots) > Len(gens[g].entitySnapshots)
           => \E h \in HandlerIds :
                  /\ handlers[h].tool = "capturing"
                  /\ handlers'[h].pending # handlers[h].pending
                  /\ handlers[h].activeAtCall = g]_vars


(***************************************************************************)
(* Properties of restoreEntityState, checked under SpecRestore.            *)
(***************************************************************************)
\* the calls of the restoration name the service of the snapshot's domain
Issues(service) ==
    \E i \in 1..Len(rRestore.calls) :
        /\ rRestore.calls[i].service = service
        /\ rRestore.calls[i].domain = rSnapshot.entity_id[1]
        /\ rRestore.calls[i].entity_id = rSnapshot.entity_id

\* C29: for a snapshot of a light, a climate entity or a media player whose
\* recorded state is off, the restoration issues the turn_off service of the
\* domain for the entity and no turn_on.
C29_OffSnapshotTurnedOff ==
    (rRestore.returned /\ rSnapshot.state = "off")
    => (Issues("turn_off") /\ ~Issues("turn_on"))

\* the restorable attributes of a domain
RestorableKeys(domain) ==
    CASE domain = "light" -> {"brightness", "rgb_color", "color_temp_kelvin"}
      [] domain = "media_player" -> {"volume_level"}
      [] OTHER -> {}

\* attribute k is sent with value v by a call of the restoration
Sends(k, v) ==
    \E i \in 1..Len(rRestore.calls) : rRestore.calls[i].data[k] = v

\* C30: for a snapshot of a light or a media player whose recorded state is
\* on, the restoration issues turn_on, sends every restorable attribute the
\* snapshot holds with the value it holds, 0 included, and sends no
\* attribute the snapshot does not hold.
C30_OnSnapshotResendsPresentAttributes ==
    (/\ rRestore.returned
     /\ rSnapshot.state = "on"
     /\ rSnapshot.entity_id[1] \in {"light", "media_player"})
    => /\ Issues("turn_on")
       /\ \A k \in RestorableKeys(rSnapshot.entity_id[1]) :
              rSnapshot.attributes[k] # Absent => Sends(k, rSnapshot.attributes[k])
       /\ \A k \in AttrKeys, v \in 0..MaxAttribute :
              Sends(k, v) => rSnapshot.attributes[k] = v


(***************************************************************************)
(* Properties of cancelAndRollback, checked under SpecRollback.            *)
(***************************************************************************)
\* the snapshots of the ledger of rec for which a service call failed
FailedSnapshots(rec) ==
    {i \in 1..Len(Ledger(rec)) :
        \E l \in restoreLog : l.entity_id = Ledger(rec)[i].entity_id /\ ~l.ok}

\* C31: a snapshot whose entity id has an unknown domain is skipped by the
\* rollback: no service call is issued for it, it is not counted as a
\* failure, and cancelAndRollback returns true unless the service call of
\* another snapshot failed.
C31_UnknownDomainSkipped ==
    /\ \A l \in restoreLog : l.entity_id # UnknownEntity
    /\ \A h \in HandlerIds :
           (handlers[h].pc = "rollbackReturned" /\ handlers[h].generation # 0)
           => /\ handlers[h].rollbackFailures = Cardinality(FailedSnapshots(handlers[h]))
              /\ handlers[h].rollbackSuccess = "true" <=> FailedSnapshots(handlers[h]) = {}

\* C31 witness: cancelAndRollback has returned true for a ledger that holds
\* a snapshot of the unknown domain
C31_Witness ==
    \E h \in HandlerIds :
        /\ handlers[h].pc = "rollbackReturned"
        /\ handlers[h].generation # 0
        /\ handlers[h].rollbackSuccess = "true"
        /\ \E i \in 1..Len(Ledger(handlers[h])) :
               Ledger(handlers[h])[i].entity_id = UnknownEntity


(***************************************************************************)
(* Properties of the partial timer, checked under SpecPromotion.           *)
(***************************************************************************)
\* C32: when the handler of a boundary event has marked an utterance seen
\* (main.ts:101) before a partial timer armed for that utterance fires, the
\* timer callback promotes nothing, whenever the timer was armed: it starts
\* no command, aborts no model call and leaves the seen set and the
\* generations as they are.
C32_TimerAfterBoundaryPromotesNothing ==
    [][\A t \in timers :
           (PartialTimerFireWithin(MaxPartialEvents, t) /\ Seen(t.id))
           => /\ \A h \in HandlerIds :
                     handlers'[h].path = "timer" => handlers[h].path = "timer"
              /\ Promotions(t.id)' = Promotions(t.id)
              /\ UNCHANGED <<gens, activeGeneration, aborted, abortController,
                             processedUtteranceIds, isAwake>>]_vars

\* C32 witness: a partial timer is pending for an utterance that a boundary
\* event marked seen, the last partial text holds a command and the derived
\* id is not seen, so only the test of the raw id keeps the callback from
\* promoting
C32_Witness ==
    \E t \in timers :
        /\ Seen(t.id)
        /\ ~Seen(PartialId(t.id))
        /\ HoldsCommand(lastPartialText)
        /\ HasIdleWithin(MaxPartialEvents)


\* C33: a partial timer that was armed while the channel was awake produces
\* no command when the channel is asleep again by the time it fires (the
\* wake timer fired, or a command was handled): its callback promotes
\* nothing.
C33_TimerWhileAsleepPromotesNothing ==
    [][\A t \in timers :
           (PartialTimerFireWithin(MaxPartialEvents, t) /\ ~isAwake)
           => \A h \in HandlerIds :
                  handlers'[h].pc = "timerPromote" => handlers[h].pc = "timerPromote"]_vars


(***************************************************************************)
(* Properties of the command text, checked under SpecSilence.              *)
(***************************************************************************)
\* C34: analyse is never called with a command text that is empty after
\* the wake word has been stripped, on no path: a boundary event that holds
\* the wake word, a boundary event while awake, or a promoted partial.
C34_NoEmptyCommand ==
    /\ \A h \in HandlerIds :
           handlers[h].pc = "analyse" => trim(handlers[h].commandText) # <<>>
    /\ \A g \in 1..Len(gens) : trim(gens[g].text) # <<>>


(***************************************************************************)
(* Properties of generation ownership, checked under SpecPromotion.        *)
(***************************************************************************)
\* the step in which the cancelAndRollback call of handler h returns after
\* its loop
RollbackLoopReturns(h) ==
    /\ handlers[h].pc = "rollbackLogged"
    /\ handlers'[h].pc = "rollbackReturned"

\* C35: cancelAndRollback detaches only the generation it read at entry and
\* rolled back: a generation that another handler started while the
\* rollback was waiting for the backend is still active when
\* cancelAndRollback returns.
C35_RollbackDetachesOwnGeneration ==
    [][\A h \in HandlerIds :
           (RollbackLoopReturns(h) /\ activeGeneration # handlers[h].generation)
           => activeGeneration' = activeGeneration]_vars


(***************************************************************************)
(* Properties of generation ownership, checked under SpecLedger.           *)
(***************************************************************************)
\* the model call that started generation g has not ended
StillRunning(g) ==
    \E k \in HandlerIds :
        handlers[k].gen = g /\ handlers[k].pc \in {"getLights", "streaming"}

\* C36: when a model call finishes successfully, the generation that its
\* completeGeneration detaches is the one the call started: a finishing
\* call never detaches a generation that another call started and that is
\* still running.
C36_CompleteDetachesOwnGeneration ==
    [][\A h \in HandlerIds :
           (/\ handlers[h].pc = "streaming"
            /\ handlers'[h].pc = "analysed"
            /\ activeGeneration # 0
            /\ activeGeneration # handlers[h].gen
            /\ StillRunning(activeGeneration))
           => activeGeneration' = activeGeneration]_vars


(***************************************************************************)
(* Properties of the cancellation handle, checked under SpecRace.          *)
(***************************************************************************)
\* C37: no model call is started under a controller whose abort() has
\* already been called: after cancelAndRollback has aborted the controller
\* of a generation, the analyse call of the next command, heard or POSTed,
\* starts its generation with a controller that is not aborted.
C37_StartedUnderFreshController ==
    [][\A h \in RaceHandlerIds :
           (handlers[h].pc = "analyse" /\ handlers'[h].pc = "getLights")
           => /\ abortController \notin aborted
              /\ gens'[handlers'[h].gen].abortController \notin aborted]_vars

=============================================================================
